---- MODULE Spec2Model ----
(***************************************************************************)
(* Crash-safe incremental recording of the whisper-obsidian plugin:        *)
(*   - AudioContextManager (src/AudioContextManager.ts): the shared,       *)
(*     reference-counted AudioContext;                                     *)
(*   - TempRecordingManager (src/TempRecordingManager.ts): session         *)
(*     directory, chunk files, manifest, recovery on plugin load.          *)
(* Every async method is cut at its awaits: one action runs the code from  *)
(* one await to the next, so that other callers (and a crash) interleave   *)
(* exactly where the JavaScript event loop lets them.                      *)
(***************************************************************************)
EXTENDS Integers, Sequences, FiniteSets, TLC

\* ------------------------------------------------------------------------
\* Bounds of the model
\* ------------------------------------------------------------------------
NumCallers == 2      \* independent users of the AudioContextManager
MaxContexts == 3     \* AudioContext instances created in one behaviour
MaxOps == 6          \* manager calls started in one behaviour
MaxClock == 1        \* seconds of wall-clock time (session ids) in one behaviour
MaxStarts == 1       \* startSession calls in one behaviour
MaxAppends == 3      \* appendChunk calls in one behaviour
MaxCrashes == 1      \* process kills followed by a plugin reload
MaxSessions == 2     \* session directories left under tmp by earlier loads
MaxChannels == 2     \* channels of an AudioBuffer given to encodeWAV
MaxFrames == 2       \* frames (samples per channel) of such a buffer
MaxNow == 4          \* seconds of Date.now() seen by the Timer
MaxAttempts == 3     \* transcription attempts of one processWithAssemblyAI
MaxSpeakers == 2     \* largest speaker count a user enters

\* Inputs of the recorder: the chunk indices it may pass (the first indices
\* and the ones around the padding width) and the blobs it may capture: the
\* n-th appendChunk call of a behaviour gets an empty blob or the n-th slice
\* of the captured audio, one or two bytes that no other slice contains.
ChunkIndices == {0, 1, 2, 9999, 10000}
BlobKinds == {"empty", "audio"}
Captured(kind, n) ==
    IF kind = "empty" THEN <<>> ELSE [i \in 1..(1 + (n % 2)) |-> n]

Callers == 1..NumCallers

\* ------------------------------------------------------------------------
\* State
\* ------------------------------------------------------------------------
VARIABLES
    \* AudioContextManager
    context,      \* this.context: 0 is null, otherwise the id of an AudioContext
    ctxState,     \* per created AudioContext: "running", "closing" or "closed"
    refCount,     \* this.refCount
    caller,       \* per caller: where its current manager call is suspended
    acmOps,       \* number of manager calls started so far
    \* observation of the manager (history, not program state)
    closedBy,     \* per created AudioContext: which method closed it
    forceUsed,    \* forceClose has been called
    forceLog,     \* how the last forceClose call that completed ended
    strayUsed,    \* releaseContext has been called by a caller holding nothing
    scopeLog,     \* per caller: its last withContext scope
    pattern,      \* progress of "acquire, acquire, release, release, acquire"
    \* the vault adapter (file system) and the clock
    clock,        \* current time in seconds
    tmpRoot,      \* <plugin folder>/tmp exists
    disk,         \* session id -> session directory (manifest, chunk files,
                  \* legacy recording.<ext> files)
    \* TempRecordingManager
    sessionPath,      \* this.sessionPath: 0 is null, otherwise the session id
    chunkIndex,       \* this.chunkIndex
    mimeType,         \* this.mimeType
    sessionFilePath,  \* this.sessionFilePath
    call,         \* the recorder's TempRecordingManager call in flight
    rec,          \* the promptAndRecoverIfAny run of the current plugin load,
                  \* with the handler of the first button click
    again,        \* the handler of a click made while the first one runs
    modal,        \* the recovery modal: "none", "open", "dismissed" (closed
                  \* by the user, nothing resolved), "closed" (by a handler)
    \* observation of the TempRecordingManager (history, not program state)
    written,      \* per session directory: the chunk writes made into it
    lastResult,   \* how the recorder's last call ended
    processed,    \* the blobs handed to process in the current plugin load
    starts,       \* number of startSession calls made
    appends,      \* number of appendChunk calls made
    crashes,      \* number of crashes so far
    \* Timer (src/Timer.ts)
    timer,        \* the Timer object's fields
    dateNow,      \* Date.now(), in seconds
    timerObs,     \* observation: intervals running, the last Timer step
    \* SpeakerReviewModal (src/Timer.ts) and processWithAssemblyAI
    review,       \* the review modal, its count prompt, the promise it resolves
    asm           \* processWithAssemblyAI: position, attempts, requests made

acmVars == <<context, ctxState, refCount, caller, acmOps,
             closedBy, forceUsed, forceLog, strayUsed, scopeLog, pattern>>

fsVars == <<clock, tmpRoot, disk>>

trmVars == <<sessionPath, chunkIndex, mimeType, sessionFilePath, call>>

recVars == <<rec, again, modal>>

obsVars == <<written, lastResult, processed, starts, appends, crashes>>

uiVars == <<timer, dateNow, timerObs, review, asm>>

vars == <<context, ctxState, refCount, caller, acmOps,
          closedBy, forceUsed, forceLog, strayUsed, scopeLog, pattern,
          clock, tmpRoot, disk,
          sessionPath, chunkIndex, mimeType, sessionFilePath, call, rec,
          again, modal,
          written, lastResult, processed, starts, appends, crashes,
          timer, dateNow, timerObs, review, asm>>

\* ------------------------------------------------------------------------
\* AudioContextManager (src/AudioContextManager.ts)
\* ------------------------------------------------------------------------

\* The state attribute of an AudioContext as JavaScript reads it: a context
\* whose close() promise is still pending does not yet report 'closed'.
isClosed(st, ctx) == st[ctx] = "closed"

\* (variant: a context that is being closed is replaced at once)
needsNewContextWhileClosing(ctx, st) == ctx = 0 \/ st[ctx] # "running"

\* getContext, line 23: a context is created when there is none or the
\* cached one is closed.
needsNewContext(ctx, st) == ctx = 0 \/ isClosed(st, ctx)

\* (variant: the context is closed while one holder is left)
releaseClosesEarly(rc, ctx, st) == rc <= 1 /\ ctx # 0 /\ ~isClosed(st, ctx)

\* releaseContext, line 32, evaluated after the decrement of line 31.
releaseCloses(rc, ctx, st) == rc <= 0 /\ ctx # 0 /\ ~isClosed(st, ctx)

\* forceClose, line 40.
forceCloses(ctx, st) == ctx # 0 /\ ~isClosed(st, ctx)

\* whileClosing (observation): the context held was handed out while a
\* close() of it was pending.
Idle == [pc |-> "idle", held |-> 0, closing |-> 0, whileClosing |-> FALSE]

\* The cached context is handed out as it is although a close() of it is
\* pending (line 23 reads a state that is not yet 'closed').
handsOutClosing(ctx, st) ==
    ctx # 0 /\ ~needsNewContext(ctx, st) /\ st[ctx] = "closing"

NoScope == [state |-> "none", before |-> 0, after |-> 0,
            interfered |-> FALSE, releases |-> 0]

\* No forceClose call has completed yet.
NoForce == [outcome |-> "none", cleared |-> FALSE]

NoPattern == [phase |-> 0, first |-> 0, early |-> FALSE, second |-> 0]

\* Nothing is acquired and no call is in flight.
AtRest ==
    /\ refCount = 0
    /\ context = 0
    /\ \A c \in Callers : caller[c] = Idle

\* Another caller's manager call ran while a withContext scope was open.
Mark(d, log) ==
    [c \in Callers |->
        IF c # d /\ log[c].state = "open"
        THEN [log[c] EXCEPT !.interfered = TRUE]
        ELSE log[c]]

\* getContext(), lines 22-28 (no await inside: it runs in one piece).
getContext ==
    /\ IF needsNewContext(context, ctxState)
       THEN /\ Len(ctxState) < MaxContexts
            /\ context' = Len(ctxState) + 1
            /\ ctxState' = Append(ctxState, "running")
            /\ closedBy' = Append(closedBy, "none")
       ELSE UNCHANGED <<context, ctxState, closedBy>>
    /\ refCount' = refCount + 1

\* getContext(), line 24, when the AudioContext constructor raises: the call
\* is rejected before the increment of line 26.
getContextFails ==
    /\ IF needsNewContext(context, ctxState) THEN TRUE ELSE FALSE
    /\ UNCHANGED <<context, ctxState, closedBy, refCount>>

\* AudioContext.close() (Web Audio API, not code of this repository): the
\* first call on a context starts closing it and its promise resolves later;
\* a call on a context that is already being closed is rejected.
closeOutcome(st, ctx) == IF st[ctx] = "running" THEN "await" ELSE "raise"

\* releaseContext(), lines 31-33 up to the await on close(): the decrement,
\* the test, and the call of close() on the cached context.  outcome is
\* "done" (nothing to close), "await" (suspended on close()) or "raise"
\* (close() rejected, the call fails with lines 34-35 not run).
releaseStart(outcome) ==
    /\ refCount' = refCount - 1
    /\ IF releaseCloses(refCount - 1, context, ctxState)
       THEN /\ outcome = closeOutcome(ctxState, context)
            /\ ctxState' = [ctxState EXCEPT ![context] = "closing"]
            /\ closedBy' = [closedBy EXCEPT ![context] =
                                IF @ = "none" THEN "release" ELSE @]
       ELSE /\ outcome = "done"
            /\ UNCHANGED <<ctxState, closedBy>>
    /\ UNCHANGED context

Outcomes == {"done", "await", "raise"}

\* releaseContext(), lines 34-35, and forceClose(), lines 43-44: the code
\* after the await, run when the close() promise of context id has resolved.
closeResolved(id) ==
    /\ ctxState' = [ctxState EXCEPT ![id] = "closed"]
    /\ context' = 0
    /\ refCount' = 0
    /\ UNCHANGED closedBy

\* ---- direct calls -------------------------------------------------------

\* await manager.getContext() by caller c.
GetContext(c) ==
    /\ acmOps < MaxOps
    /\ caller[c].pc = "idle" /\ caller[c].held = 0
    /\ getContext
    /\ caller' = [caller EXCEPT
                    ![c].held = context',
                    ![c].whileClosing = handsOutClosing(context, ctxState)]
    /\ acmOps' = acmOps + 1
    /\ scopeLog' = Mark(c, scopeLog)
    /\ pattern' =
         IF pattern.phase = 5
         THEN [pattern EXCEPT !.phase = 6, !.second = context']
         ELSE IF AtRest
         THEN [phase |-> 1, first |-> context', early |-> FALSE, second |-> 0]
         ELSE IF pattern.phase = 1
         THEN [pattern EXCEPT !.phase = 2]
         ELSE NoPattern
    /\ UNCHANGED <<forceUsed, forceLog, strayUsed>>
    /\ UNCHANGED <<fsVars, trmVars, recVars, obsVars>>
    /\ UNCHANGED uiVars

\* await manager.releaseContext() by caller c, up to its await; a caller
\* that holds nothing makes a release with no matching getContext.
ReleaseContext(c) ==
    /\ acmOps < MaxOps
    /\ caller[c].pc = "idle"
    /\ \E outcome \in Outcomes :
        /\ releaseStart(outcome)
        /\ caller' = [caller EXCEPT ![c] =
                        IF outcome = "await"
                        THEN [Idle EXCEPT !.pc = "release", !.closing = context]
                        ELSE Idle]
        /\ pattern' =
             IF pattern.phase = 2
             THEN [pattern EXCEPT !.phase = 3, !.early = (outcome # "done")]
             ELSE IF pattern.phase = 3 /\ ~pattern.early
             THEN [pattern EXCEPT !.phase = IF outcome = "await" THEN 4 ELSE 5]
             ELSE NoPattern
    /\ strayUsed' = (strayUsed \/ caller[c].held = 0)
    /\ acmOps' = acmOps + 1
    /\ scopeLog' = Mark(c, scopeLog)
    /\ UNCHANGED <<forceUsed, forceLog>>
    /\ UNCHANGED <<fsVars, trmVars, recVars, obsVars>>
    /\ UNCHANGED uiVars

\* The close() promise awaited by releaseContext resolves: lines 34-35.
ReleaseResume(c) ==
    /\ caller[c].pc = "release"
    /\ closeResolved(caller[c].closing)
    /\ caller' = [caller EXCEPT ![c] = Idle]
    /\ pattern' = IF pattern.phase = 4
                  THEN [pattern EXCEPT !.phase = 5]
                  ELSE pattern
    /\ scopeLog' = Mark(c, scopeLog)
    /\ UNCHANGED <<acmOps, forceUsed, forceLog, strayUsed>>
    /\ UNCHANGED <<fsVars, trmVars, recVars, obsVars>>
    /\ UNCHANGED uiVars

\* forceClose(), lines 39-45, up to its await (or to its end when there is
\* nothing to close).
ForceClose(c) ==
    /\ acmOps < MaxOps
    /\ caller[c].pc = "idle"
    /\ IF forceCloses(context, ctxState)
       THEN /\ ctxState' = [ctxState EXCEPT ![context] = "closing"]
            /\ closedBy' = [closedBy EXCEPT ![context] =
                                IF @ = "none" THEN "force" ELSE @]
            /\ caller' = [caller EXCEPT ![c] =
                            IF closeOutcome(ctxState, context) = "await"
                            THEN [@ EXCEPT !.pc = "force", !.closing = context]
                            ELSE @]
            /\ forceLog' = IF closeOutcome(ctxState, context) = "await"
                           THEN forceLog
                           ELSE [outcome |-> "raised",
                                 cleared |-> context = 0 /\ refCount = 0]
            /\ UNCHANGED <<context, refCount>>
       ELSE /\ context' = 0
            /\ refCount' = 0
            /\ forceLog' = [outcome |-> "ok", cleared |-> TRUE]
            /\ UNCHANGED <<ctxState, closedBy, caller>>
    /\ forceUsed' = TRUE
    /\ acmOps' = acmOps + 1
    /\ pattern' = NoPattern
    /\ scopeLog' = Mark(c, scopeLog)
    /\ UNCHANGED strayUsed
    /\ UNCHANGED <<fsVars, trmVars, recVars, obsVars>>
    /\ UNCHANGED uiVars

\* The close() promise awaited by forceClose resolves: lines 43-44.
ForceResume(c) ==
    /\ caller[c].pc = "force"
    /\ closeResolved(caller[c].closing)
    /\ caller' = [caller EXCEPT ![c].pc = "idle", ![c].closing = 0]
    /\ forceLog' = [outcome |-> "ok",
                    cleared |-> context' = 0 /\ refCount' = 0]
    /\ pattern' = NoPattern
    /\ scopeLog' = Mark(c, scopeLog)
    /\ UNCHANGED <<acmOps, forceUsed, strayUsed>>
    /\ UNCHANGED <<fsVars, trmVars, recVars, obsVars>>
    /\ UNCHANGED uiVars

\* ---- withContext(callback), lines 50-57 ----------------------------------

\* Line 51, then the callback is entered and suspends.
WithContext(c) ==
    /\ acmOps < MaxOps
    /\ caller[c].pc = "idle" /\ caller[c].held = 0
    /\ getContext
    /\ caller' = [caller EXCEPT
                    ![c].pc = "callback", ![c].held = context',
                    ![c].whileClosing = handsOutClosing(context, ctxState)]
    /\ scopeLog' = [Mark(c, scopeLog) EXCEPT ![c] =
                      [state |-> "open", before |-> refCount, after |-> 0,
                       interfered |-> FALSE, releases |-> 0]]
    /\ acmOps' = acmOps + 1
    /\ pattern' = NoPattern
    /\ UNCHANGED <<forceUsed, forceLog, strayUsed>>
    /\ UNCHANGED <<fsVars, trmVars, recVars, obsVars>>
    /\ UNCHANGED uiVars

\* The callback returns or throws; the finally block of lines 54-56 calls
\* releaseContext, which runs up to its await.
CallbackEnds(c) ==
    /\ caller[c].pc = "callback"
    /\ \E outcome \in Outcomes :
        /\ releaseStart(outcome)
        /\ caller' = [caller EXCEPT ![c] =
                        IF outcome = "await"
                        THEN [Idle EXCEPT !.pc = "finally", !.closing = context]
                        ELSE Idle]
        /\ scopeLog' = [Mark(c, scopeLog) EXCEPT
                          ![c].releases = @ + 1,
                          ![c].state = IF outcome = "await" THEN "open" ELSE "done",
                          ![c].after = refCount']
    /\ pattern' = NoPattern
    /\ UNCHANGED <<acmOps, forceUsed, forceLog, strayUsed>>
    /\ UNCHANGED <<fsVars, trmVars, recVars, obsVars>>
    /\ UNCHANGED uiVars

\* The close() awaited inside the finally block resolves; withContext ends.
FinallyResume(c) ==
    /\ caller[c].pc = "finally"
    /\ closeResolved(caller[c].closing)
    /\ caller' = [caller EXCEPT ![c] = Idle]
    /\ scopeLog' = [Mark(c, scopeLog) EXCEPT ![c].state = "done",
                                             ![c].after = refCount']
    /\ pattern' = NoPattern
    /\ UNCHANGED <<acmOps, forceUsed, forceLog, strayUsed>>
    /\ UNCHANGED <<fsVars, trmVars, recVars, obsVars>>
    /\ UNCHANGED uiVars

\* ------------------------------------------------------------------------
\* TempRecordingManager (src/src/TempRecordingManager.ts): pure helpers
\* ------------------------------------------------------------------------

\* Strings that the code sorts or builds are sequences of UTF-16 code units.
Code0 == 48                                        \* "0"
ChunkPrefix == <<99, 104, 117, 110, 107, 45>>      \* "chunk-"
DatSuffix == <<46, 100, 97, 116>>                  \* ".dat"
PadWidth == 4                                      \* padStart(4, '0')

\* String(n) for a non-negative integer: its decimal digits.
RECURSIVE DecimalString(_)
DecimalString(n) ==
    IF n < 10 THEN <<Code0 + n>>
    ELSE Append(DecimalString(n \div 10), Code0 + (n % 10))

\* str.padStart(width, '0'): pads on the left up to width, never truncates.
RECURSIVE padStart(_, _)
padStart(str, width) ==
    IF Len(str) >= width THEN str ELSE padStart(<<Code0>> \o str, width)

\* The file name of line 83: `chunk-${String(chunkIndex).padStart(4,'0')}.dat`.
chunkName(index) ==
    ChunkPrefix \o padStart(DecimalString(index), PadWidth) \o DatSuffix

\* a < b in the order Array.prototype.sort() uses with no comparator:
\* code unit by code unit, a proper prefix first.
RECURSIVE StringLess(_, _)
StringLess(a, b) ==
    IF b = <<>> THEN FALSE
    ELSE IF a = <<>> THEN TRUE
    ELSE IF Head(a) # Head(b) THEN Head(a) < Head(b)
    ELSE StringLess(Tail(a), Tail(b))

\* names.sort() of line 206, for a set of distinct names.
RECURSIVE sortNames(_)
sortNames(names) ==
    IF names = {} THEN <<>>
    ELSE LET first == CHOOSE x \in names :
                          \A y \in names \ {x} : StringLess(x, y)
         IN  <<first>> \o sortNames(names \ {first})

\* new Blob(parts): the parts one after the other.
RECURSIVE concatParts(_)
concatParts(parts) ==
    IF parts = <<>> THEN <<>>
    ELSE Head(parts) \o concatParts(Tail(parts))

\* (variant: the listing sorted in descending order)
listChunksDescending(chunks) ==
    LET sorted == sortNames(DOMAIN chunks)
    IN  [k \in 1..Len(sorted) |-> sorted[Len(sorted) + 1 - k]]

\* Lines 204-214 of assembleBlobFromSession: the chunk files of a session
\* directory in sorted order, and the bytes read from them in that order.
\* (chunks holds exactly the files whose path contains "/chunk-".)
listChunks(chunks) == sortNames(DOMAIN chunks)

readChunks(chunks) ==
    LET listing == listChunks(chunks)
    IN  concatParts([k \in 1..Len(listing) |-> chunks[listing[k]]])

\* getExtensionFromMime, lines 30-37, on the MIME types of the model:
\* the subtype between "/" and ";", trimmed and lower-cased, "dat" when the
\* type has no "/" or an empty subtype.
MimeTypes == {"audio/webm", "audio/wav"}

getExtensionFromMime(mime) ==
    CASE mime = "audio/webm" -> "webm"
      [] mime = "audio/wav" -> "wav"
      [] mime = "audio/webm;codecs=opus" -> "webm"
      [] OTHER -> "dat"

\* ---- encodeWAV, lines 253-303 --------------------------------------------

\* Samples are multiples of 1/SampleUnit; an AudioBuffer is
\* [numberOfChannels, sampleRate, length, channelData].
SampleUnit == 4

\* setUint32 with the bytes in big-endian order.
uint32be(v) == <<(v \div 16777216) % 256, (v \div 65536) % 256,
                 (v \div 256) % 256, v % 256>>

\* DataView.setUint32 / setUint16(value, littleEndian = true).
\* (the four, resp. two, low-order bytes of a non-negative value)
uint32le(v) == <<v % 256, (v \div 256) % 256,
                 (v \div 65536) % 256, (v \div 16777216) % 256>>
uint16le(v) == <<v % 256, (v \div 256) % 256>>

\* Line 296-297: clamp to [-1, 1], scale by 0x8000 below zero and by 0x7FFF
\* otherwise; setInt16 truncates toward zero and wraps to 16 bits.
\* The same with one scale, 0x7FFF, on both sides of zero.
pcm16Symmetric(sample) ==
    LET clamped == IF sample < -SampleUnit THEN -SampleUnit
                   ELSE IF sample > SampleUnit THEN SampleUnit ELSE sample
        scaled  == IF clamped < 0
                   THEN -((-clamped * 32767) \div SampleUnit)
                   ELSE (clamped * 32767) \div SampleUnit
    IN  uint16le(scaled + 65536)

pcm16(sample) ==
    LET clamped == IF sample < -SampleUnit THEN -SampleUnit
                   ELSE IF sample > SampleUnit THEN SampleUnit ELSE sample
        scaled  == IF clamped < 0
                   THEN -((-clamped * 32768) \div SampleUnit)
                   ELSE (clamped * 32767) \div SampleUnit
    IN  uint16le(scaled + 65536)

encodeWAV(buffer) ==
    LET numChannels == buffer.numberOfChannels
        sampleRate  == buffer.sampleRate
        length      == buffer.length * numChannels * 2
        frame(i)    == concatParts([ch \in 1..numChannels |->
                                       pcm16(buffer.channelData[ch][i])])
    IN  [type  |-> "audio/wav",
         bytes |-> <<82, 73, 70, 70>> \o uint32le(36 + length)
                   \o <<87, 65, 86, 69>>
                   \o <<102, 109, 116, 32>> \o uint32le(16)
                   \o uint16le(1) \o uint16le(numChannels)
                   \o uint32le(sampleRate)
                   \o uint32le((sampleRate * numChannels * 16) \div 8)
                   \o uint16le((numChannels * 16) \div 8)
                   \o uint16le(16)
                   \o <<100, 97, 116, 97>> \o uint32le(length)
                   \o concatParts([i \in 1..buffer.length |-> frame(i)])]

\* No AudioBuffer.
NoBuffer == [numberOfChannels |-> 0, sampleRate |-> 0, length |-> 0,
             channelData |-> <<>>]

\* The arguments encodeWAV is applied to when the function itself is
\* examined: every buffer of up to MaxChannels channels (none included) and
\* up to MaxFrames frames, whose samples are -1, 1, the values just inside
\* and the values outside [-1, 1].
Samples == {-SampleUnit - 1, -SampleUnit, -1, 1, SampleUnit, SampleUnit + 1}
SampleRates == {8000, 16000}
AudioBuffers ==
    { [numberOfChannels |-> c, sampleRate |-> r, length |-> n,
       channelData |-> data] :
         <<c, n, r, data>> \in
            UNION { { <<c, n, r, data>> :
                        data \in [1..c -> [1..n -> Samples]] } :
                    <<c, n, r>> \in (0..MaxChannels) \X (0..MaxFrames)
                                     \X SampleRates } }

\* What decodeAudioData (the browser's decoder) may hand back.
DecodedBuffers ==
    { [numberOfChannels |-> 1, sampleRate |-> 16000, length |-> 2,
       channelData |-> << <<SampleUnit, -SampleUnit>> >>],
      [numberOfChannels |-> 2, sampleRate |-> 8000, length |-> 1,
       channelData |-> << <<SampleUnit + 2>>, <<-1>> >>] }

\* ------------------------------------------------------------------------
\* TempRecordingManager: state after construction, and the recorder's calls
\* ------------------------------------------------------------------------

NoManifest == [status |-> "missing", mimeType |-> "", startedAt |-> 0,
               chunkCount |-> 0]

\* A directory just created by mkdir.
EmptyDir == [manifest |-> NoManifest, chunks |-> <<>>, legacy |-> <<>>]

NoFile == [session |-> 0, ext |-> ""]

NoCall == [pc |-> "idle", session |-> 0, index |-> 0, blob |-> <<>>,
           mime |-> "", ext |-> ""]

NoResult == [op |-> "none", outcome |-> "none", manifestFailed |-> FALSE,
             onDisk |-> FALSE, deleted |-> FALSE, empty |-> FALSE,
             others |-> {}]

NoBlob == [type |-> "", bytes |-> <<>>]

\* A promptAndRecoverIfAny run that has not started yet (onload, line 46).
NoRecovery ==
    [pc |-> "start", session |-> 0, mime |-> "", decision |-> "none",
     raw |-> <<>>, blob |-> NoBlob, closing |-> 0,
     \* observation of the run
     log |-> <<>>, listed |-> 0, manifestCount |-> 0, reads |-> 0,
     acquired |-> FALSE, rejected |-> FALSE, deletion |-> "none",
     gone |-> FALSE, noData |-> FALSE, transcode |-> "none",
     buffer |-> NoBuffer, kept |-> 0]

\* No second click has been made.
NoClick == [NoRecovery EXCEPT !.pc = "none"]

\* Lines 13-16 and 18-20, on a vault that has no tmp folder yet.
InitManager ==
    /\ sessionPath = 0
    /\ chunkIndex = 0
    /\ mimeType = ""
    /\ sessionFilePath = NoFile
    /\ call = NoCall
    /\ rec = NoRecovery
    /\ again = NoClick
    /\ modal = "none"
    /\ lastResult = NoResult
    /\ processed = <<>>
    /\ starts = 0
    /\ appends = 0
    /\ crashes = 0

InitTRM ==
    /\ clock = 1
    /\ tmpRoot = FALSE
    /\ disk = <<>>
    /\ written = <<>>
    /\ InitManager

\* f with key k bound to value v (k added to the domain when it is new).
Put(f, k, v) == [x \in DOMAIN f \cup {k} |-> IF x = k THEN v ELSE f[x]]

\* f without key k.
Drop(f, k) == [x \in DOMAIN f \ {k} |-> f[x]]

\* (variant: the count follows the index of the last call)
latest(a, b) == b

\* Math.max of line 92.
max(a, b) == IF a >= b THEN a ELSE b

\* adapter.rmdir(target, true) of line 317, or the manual removal of lines
\* 320-327: the directory is removed; or the removal fails with the directory
\* untouched; or it fails part-way, after the files were removed.
RmdirOutcomes == {"removed", "failed", "partial"}

\* (variant: the files are removed, the folder itself never is)
rmdirKeepsFolder(d, target, outcome) ==
    IF target \notin DOMAIN d THEN d
    ELSE CASE outcome \in {"removed", "partial"} ->
                [d EXCEPT ![target] = EmptyDir]
           [] OTHER -> d

rmdir(d, target, outcome) ==
    IF target \notin DOMAIN d THEN d
    ELSE CASE outcome = "removed" -> Drop(d, target)
           [] outcome = "partial" -> [d EXCEPT ![target] = EmptyDir]
           [] OTHER -> d

\* The chunk writes still on disk after a removal.
forget(w, target, outcome) ==
    IF target \notin DOMAIN w THEN w
    ELSE CASE outcome = "removed" -> Drop(w, target)
           [] outcome = "partial" -> [w EXCEPT ![target] = <<>>]
           [] OTHER -> w

\* adapter.mkdir(path), lines 45 and 52: the directory exists afterwards, or
\* the call is rejected and nothing is created.  On a directory that exists
\* already the call succeeds and changes nothing.
mkdir(d, id, outcome) ==
    IF outcome = "ok" /\ id \notin DOMAIN d THEN Put(d, id, EmptyDir) ELSE d

\* How the two mkdir calls of startSession end: both succeed; the one of the
\* tmp folder is rejected; the one of the session directory is rejected.
StartOutcomes == {"ok", "rootFails", "sessionFails"}

\* startSession(mimeType), lines 40-52: the tmp folder and the session
\* directory are created; the session id is the current time in seconds.
\* this.mimeType is assigned before the first mkdir and this.sessionPath
\* before the second, so a rejected mkdir leaves them assigned.
StartSession(mime, now, io) ==
    /\ call.pc = "idle"
    /\ rec.pc # "start"
    /\ starts < MaxStarts
    /\ starts' = starts + 1
    /\ now >= clock
    /\ clock' = now
    /\ mimeType' = mime
    /\ IF io = "rootFails"
       THEN /\ ~tmpRoot
            /\ lastResult' = [NoResult EXCEPT !.op = "start",
                                              !.outcome = "raised"]
            /\ UNCHANGED <<tmpRoot, sessionPath, disk, written, call>>
       ELSE /\ tmpRoot' = TRUE
            /\ sessionPath' = now
            /\ io = "sessionFails" => now \notin DOMAIN disk
            /\ disk' = mkdir(disk, now, IF io = "ok" THEN "ok" ELSE "failed")
            /\ written' = IF now \in DOMAIN disk' /\ now \notin DOMAIN written
                          THEN Put(written, now, <<>>) ELSE written
            /\ IF io = "ok"
               THEN /\ call' = [NoCall EXCEPT !.pc = "startManifest",
                                              !.mime = mime]
                    /\ lastResult' = NoResult
               ELSE /\ call' = NoCall
                    /\ lastResult' = [NoResult EXCEPT !.op = "start",
                                                      !.outcome = "raised"]
    /\ UNCHANGED <<chunkIndex, sessionFilePath, recVars, processed,
                   appends, crashes, acmVars>>
    /\ UNCHANGED uiVars

\* startSession, lines 54-66: the initial manifest is written.
StartManifest ==
    /\ call.pc = "startManifest"
    /\ IF sessionPath \in DOMAIN disk
       THEN /\ sessionFilePath' = [session |-> sessionPath,
                                   ext |-> getExtensionFromMime(call.mime)]
            /\ disk' = [disk EXCEPT ![sessionPath].manifest =
                           [status |-> "ok", mimeType |-> call.mime,
                            startedAt |-> clock, chunkCount |-> 0]]
            /\ chunkIndex' = 0
            /\ lastResult' = [NoResult EXCEPT !.op = "start", !.outcome = "ok"]
       ELSE /\ sessionFilePath' = [session |-> sessionPath,
                                   ext |-> getExtensionFromMime(call.mime)]
            /\ lastResult' = [NoResult EXCEPT !.op = "start",
                                              !.outcome = "raised"]
            /\ UNCHANGED <<disk, chunkIndex>>
    /\ call' = NoCall
    /\ UNCHANGED <<clock, tmpRoot, sessionPath, mimeType, recVars, written,
                   processed, starts, appends, crashes, acmVars>>
    /\ UNCHANGED uiVars

\* (variant: only a missing session makes the call return at once)
skipsOnlyWithoutSession(path, blob) == path = 0

\* Lines 79-80 and 100-101: without a session, and for a blob that is
\* missing or of size 0 (the empty sequence of bytes stands for both), the
\* call returns at once.
skips(path, blob) == path = 0 \/ blob = <<>>

\* The chunk file of appendChunk(blob, index) holds the blob's bytes.
chunkOnDisk(d, session, index, blob) ==
    /\ session \in DOMAIN d
    /\ chunkName(index) \in DOMAIN d[session].chunks
    /\ d[session].chunks[chunkName(index)] = blob

\* appendChunk(blob, chunkIndex) -> writeIncrementalChunk, lines 79-84:
\* nothing without a session or for an empty blob; otherwise the chunk path
\* is built from this.sessionPath (line 83) and the call is suspended at
\* await blob.arrayBuffer() (line 84).
WriteIncrementalChunk(kind, index) ==
    LET blob == Captured(kind, appends + 1) IN
    /\ call.pc = "idle"
    /\ rec.pc # "start"
    /\ appends < MaxAppends
    /\ appends' = appends + 1
    /\ IF skips(sessionPath, blob)
       THEN /\ lastResult' = [NoResult EXCEPT !.op = "append",
                                                 !.outcome = "ok",
                                                 !.empty = blob = <<>>]
            /\ UNCHANGED call
       ELSE /\ call' = [NoCall EXCEPT !.pc = "appendWrite",
                                      !.session = sessionPath,
                                      !.index = index, !.blob = blob]
            /\ lastResult' = [NoResult EXCEPT !.empty = blob = <<>>]
    /\ UNCHANGED <<fsVars, sessionPath, chunkIndex, mimeType,
                   sessionFilePath, recVars, written, processed, starts,
                   crashes, acmVars>>
    /\ UNCHANGED uiVars

\* writeIncrementalChunk, line 85: adapter.writeBinary(chunkPath, ...) with
\* the path built before the await.  The chunk file is created or
\* replaced; without the session directory the write is rejected and so is
\* the call.
ChunkWrite ==
    /\ call.pc = "appendWrite"
    /\ IF call.session \notin DOMAIN disk
       THEN /\ lastResult' = [NoResult EXCEPT !.op = "append",
                                                 !.outcome = "raised"]
            /\ call' = NoCall
            /\ UNCHANGED <<disk, written>>
       ELSE /\ disk' = [disk EXCEPT ![call.session].chunks =
                           Put(@, chunkName(call.index), call.blob)]
            /\ written' = [written EXCEPT ![call.session] =
                              Append(@, [index |-> call.index,
                                         blob |-> call.blob])]
            /\ call' = [call EXCEPT !.pc = "appendManifest"]
            /\ UNCHANGED lastResult
    /\ UNCHANGED <<clock, tmpRoot, sessionPath, chunkIndex, mimeType,
                   sessionFilePath, recVars, processed, starts, appends,
                   crashes, acmVars>>
    /\ UNCHANGED uiVars

\* The manifest update of lines 88-96 (appendChunk with an index) and of
\* lines 109-117 (appendChunk without one).  io is what the adapter does:
\* "ok"; "readFails"; "writeFails" with the manifest left as it was; or
\* "writeTorn" with the manifest left unparsable.  A manifest that is
\* missing or unparsable makes read or JSON.parse throw.  Every failure is
\* caught (lines 94-96, 115-117).
ManifestIO == {"ok", "readFails", "writeFails", "writeTorn"}

manifestUpdateFails(d, session, io) ==
    \/ session \notin DOMAIN d
    \/ d[session].manifest.status # "ok"
    \/ io # "ok"

updateManifest(d, session, io, count) ==
    IF session \notin DOMAIN d \/ d[session].manifest.status # "ok"
       \/ io \in {"readFails", "writeFails"}
    THEN d
    ELSE IF io = "writeTorn"
    THEN [d EXCEPT ![session].manifest.status = "corrupt"]
    ELSE [d EXCEPT ![session].manifest.chunkCount = count]

\* (variant: the failure of the manifest update reaches the caller)
appendOutcomeUncaught(manifestFailed) ==
    IF manifestFailed THEN "raised" ELSE "ok"

\* Lines 94-96: a failed manifest update is logged, the call returns
\* normally.
appendOutcome(manifestFailed) == "ok"

\* The chunk write of the call in flight has been undone by a removal of the
\* session directory made since (a deletion started while the call was
\* suspended at an await).
chunkDeleted(w, given) ==
    \/ given.session \notin DOMAIN w
    \/ \A k \in 1..Len(w[given.session]) :
          w[given.session][k] # [index |-> given.index, blob |-> given.blob]

\* writeIncrementalChunk, lines 88-97; the manifest path of line 89 is built
\* from this.sessionPath as it is after the await of line 85.
AppendManifest(io) ==
    /\ call.pc = "appendManifest"
    /\ disk' = updateManifest(disk, sessionPath, io,
                  IF sessionPath \in DOMAIN disk
                  THEN max(disk[sessionPath].manifest.chunkCount,
                           call.index + 1)
                  ELSE 0)
    /\ lastResult' = [op |-> "append",
                      outcome |-> appendOutcome(
                          manifestUpdateFails(disk, sessionPath, io)),
                      manifestFailed |->
                          manifestUpdateFails(disk, sessionPath, io),
                      onDisk |-> chunkOnDisk(disk', call.session,
                                             call.index, call.blob),
                      deleted |-> chunkDeleted(written, call),
                      empty |-> call.blob = <<>>,
                      others |-> {}]
    /\ call' = NoCall
    /\ UNCHANGED <<clock, tmpRoot, sessionPath, chunkIndex, mimeType,
                   sessionFilePath, recVars, written, processed, starts, appends,
                   crashes, acmVars>>
    /\ UNCHANGED uiVars

\* appendChunk(blob) -> writeSnapshot, lines 100-104: nothing without a
\* session or for an empty blob; otherwise the target path is taken from
\* this.sessionFilePath (line 103) and the call is suspended at
\* await blob.arrayBuffer() (line 104).
WriteSnapshot(kind) ==
    LET blob == Captured(kind, appends + 1) IN
    /\ call.pc = "idle"
    /\ rec.pc # "start"
    /\ appends < MaxAppends
    /\ appends' = appends + 1
    /\ IF skips(sessionPath, blob)
       THEN /\ lastResult' = [NoResult EXCEPT !.op = "snapshot",
                                                 !.outcome = "ok",
                                                 !.empty = blob = <<>>]
            /\ UNCHANGED call
       ELSE LET target == IF sessionFilePath # NoFile THEN sessionFilePath
                          ELSE [session |-> sessionPath,
                                ext |-> getExtensionFromMime(mimeType)]
            IN  /\ call' = [NoCall EXCEPT !.pc = "snapshotWrite",
                                          !.session = target.session,
                                          !.ext = target.ext,
                                          !.blob = blob]
                /\ lastResult' = [NoResult EXCEPT !.empty = blob = <<>>]
    /\ UNCHANGED <<fsVars, sessionPath, chunkIndex, mimeType,
                   sessionFilePath, recVars, written, processed, starts,
                   crashes, acmVars>>
    /\ UNCHANGED uiVars

\* writeSnapshot, lines 105-106: the whole recording so far replaces the
\* single file recording.<ext>, and this.chunkIndex is incremented; without
\* the directory of the target the write is rejected and so is the call.
SnapshotWrite ==
    /\ call.pc = "snapshotWrite"
    /\ IF call.session \notin DOMAIN disk
       THEN /\ lastResult' = [NoResult EXCEPT !.op = "snapshot",
                                                 !.outcome = "raised"]
            /\ call' = NoCall
            /\ UNCHANGED <<disk, chunkIndex>>
       ELSE /\ disk' = [disk EXCEPT ![call.session].legacy =
                           Put(@, call.ext, call.blob)]
            /\ chunkIndex' = chunkIndex + 1
            /\ call' = [call EXCEPT !.pc = "snapshotManifest"]
            /\ UNCHANGED lastResult
    /\ UNCHANGED <<clock, tmpRoot, sessionPath, mimeType, sessionFilePath,
                   recVars, written, processed, starts, appends, crashes,
                   acmVars>>
    /\ UNCHANGED uiVars

\* writeSnapshot, lines 108-118.
SnapshotManifest(io) ==
    /\ call.pc = "snapshotManifest"
    /\ disk' = updateManifest(disk, sessionPath, io, chunkIndex)
    /\ lastResult' = [NoResult EXCEPT !.op = "snapshot", !.outcome = "ok",
                         !.empty = call.blob = <<>>,
                         !.manifestFailed =
                             manifestUpdateFails(disk, sessionPath, io)]
    /\ call' = NoCall
    /\ UNCHANGED <<clock, tmpRoot, sessionPath, chunkIndex, mimeType,
                   sessionFilePath, recVars, written, processed, starts, appends,
                   crashes, acmVars>>
    /\ UNCHANGED uiVars

\* (variant: this.mimeType is not reset)
sessionStateKeepsMime(explicit, st) ==
    IF explicit THEN st
    ELSE [sessionPath |-> 0, chunkIndex |-> 0, mimeType |-> st.mimeType,
          sessionFilePath |-> NoFile]

\* deleteSession, lines 333-338: the manager's session state after the
\* removal; it is reset only when no path was given.
sessionStateAfterDelete(explicit, st) ==
    IF explicit THEN st
    ELSE [sessionPath |-> 0, chunkIndex |-> 0, mimeType |-> "",
          sessionFilePath |-> NoFile]

\* deleteSession() with no argument, lines 311-338: without an active
\* session it returns at once (line 314); otherwise the active session's
\* directory is removed (a failure is caught, lines 329-331) and the
\* manager's session state is cleared.  onunload calls it without awaiting
\* anything, so it also runs while a recorder call is suspended at an await.
DeleteSession(outcome) ==
    /\ rec.pc # "start"
    /\ IF sessionPath = 0
       THEN /\ lastResult' = [NoResult EXCEPT !.op = "delete",
                                              !.outcome = "nothing"]
            /\ UNCHANGED <<disk, written, sessionPath, chunkIndex, mimeType,
                           sessionFilePath>>
       ELSE LET after == sessionStateAfterDelete(FALSE,
                            [sessionPath |-> sessionPath,
                             chunkIndex |-> chunkIndex,
                             mimeType |-> mimeType,
                             sessionFilePath |-> sessionFilePath])
            IN  /\ disk' = rmdir(disk, sessionPath, outcome)
                /\ written' = forget(written, sessionPath, outcome)
                /\ sessionPath' = after.sessionPath
                /\ chunkIndex' = after.chunkIndex
                /\ mimeType' = after.mimeType
                /\ sessionFilePath' = after.sessionFilePath
                /\ lastResult' = [NoResult EXCEPT !.op = "delete",
                                                  !.outcome = "ok"]
    /\ UNCHANGED <<clock, tmpRoot, call, recVars, processed, starts, appends, crashes,
                   acmVars>>
    /\ UNCHANGED uiVars

\* ------------------------------------------------------------------------
\* TempRecordingManager: recovery on plugin load
\* ------------------------------------------------------------------------

\* (variant: the folder names are sorted ascending, the oldest is offered)
findEarliestSessionPath ==
    IF ~tmpRoot \/ DOMAIN disk = {} THEN 0
    ELSE CHOOSE p \in DOMAIN disk : \A q \in DOMAIN disk : p <= q

\* findLatestSessionPath, lines 128-139: the session folder whose name sorts
\* last; names are session-<timestamp> with fixed-width fields, so the order
\* of the names is the order of the session ids.  0 is null.
findLatestSessionPath ==
    IF ~tmpRoot \/ DOMAIN disk = {} THEN 0
    ELSE CHOOSE p \in DOMAIN disk : \A q \in DOMAIN disk : q <= p

\* Folders under tmp that are not session folders: their names do not
\* contain "/session-".
OtherFolders == {"cache"}

\* adapter.list(tmpRoot).folders: the session folders, session-<id>, and
\* the other folders.
listFolders(d, others) ==
    { [session |-> TRUE, name |-> id] : id \in DOMAIN d }
        \cup { [session |-> FALSE, name |-> o] : o \in others }

\* (variant of unnamed/part_002, line 88: any folder whose name does not end
\* with "/session-" counts, and no folder name ends so)
hasActiveSessionAnyFolder(root, folders) ==
    root /\ folders # {}

\* hasActiveSession, lines 120-126: the tmp root exists and one of its
\* folders has "/session-" in its name.
hasActiveSession(root, folders) ==
    root /\ \E f \in folders : f.session

\* A call of hasActiveSession, with the other folders the listing shows.
HasActiveSession(others) ==
    /\ call.pc = "idle"
    /\ lastResult' =
          [NoResult EXCEPT
             !.op = "hasActive",
             !.outcome = IF hasActiveSession(tmpRoot,
                                             listFolders(disk, others))
                         THEN "true" ELSE "false",
             !.others = others]
    /\ UNCHANGED <<fsVars, trmVars, recVars, acmVars, written, processed,
                   starts, appends, crashes>>
    /\ UNCHANGED uiVars

\* (variant: only as many chunk files as the manifest counts are read)
assembleChunksByManifest(dir) ==
    LET listing == listChunks(dir.chunks)
        count == IF dir.manifest.chunkCount < Len(listing)
                 THEN dir.manifest.chunkCount ELSE Len(listing)
    IN  concatParts([k \in 1..count |-> dir.chunks[listing[k]]])

\* Lines 208-215: the raw blob is made of every chunk file listed.
assembleChunks(dir) == readChunks(dir.chunks)

\* (variant: a manifest that cannot be used leaves the type empty)
manifestMimeOrNone(m, io) ==
    IF io = "ok" /\ m.status = "ok" THEN m.mimeType ELSE ""

\* Lines 145-153 and 171: the mimeType of the manifest read from the session
\* directory; audio/webm when manifest.json is missing, cannot be read or
\* parsed, or holds no mimeType.
manifestMime(m, io) ==
    IF io = "ok" /\ m.status = "ok" /\ m.mimeType # "" THEN m.mimeType
    ELSE "audio/webm"

\* (variant: a run that finds no tmp folder creates it before returning)
RecoveryScanCreatesRoot(io) ==
    /\ rec.pc = "start"
    /\ LET found == findLatestSessionPath
       IN  IF found = 0
           THEN /\ rec' = [rec EXCEPT !.pc = "returned"]
                /\ tmpRoot' = TRUE
                /\ UNCHANGED modal
           ELSE LET m == disk[found].manifest
                IN  /\ rec' = [rec EXCEPT
                                 !.pc = "prompt",
                                 !.session = found,
                                 !.mime = manifestMime(m, io)]
                    /\ modal' = "open"
                    /\ UNCHANGED tmpRoot
    /\ UNCHANGED <<clock, disk, trmVars, obsVars, acmVars, again>>
    /\ UNCHANGED uiVars

\* promptAndRecoverIfAny, lines 142-162 and 185: the latest session is
\* looked up; without one the run returns; otherwise its manifest is read
\* (audio/webm is assumed when it cannot be read or parsed) and the modal
\* is opened.
RecoveryScan(io) ==
    /\ rec.pc = "start"
    /\ LET found == findLatestSessionPath
       IN  IF found = 0
           THEN /\ rec' = [rec EXCEPT !.pc = "returned"]
                /\ UNCHANGED modal
           ELSE LET m == disk[found].manifest
                IN  /\ rec' = [rec EXCEPT
                                 !.pc = "prompt",
                                 !.session = found,
                                 !.mime = manifestMime(m, io)]
                    /\ modal' = "open"
    /\ UNCHANGED <<fsVars, trmVars, obsVars, acmVars, again>>
    /\ UNCHANGED uiVars

\* A button handler is suspended at one of its awaits.
InFlight == {"discarding", "decoding", "releasing", "processing"}

\* The buttons stay enabled while a handler runs: the modal is closed only
\* by the last statements of a handler (lines 166 and 182).  A click made
\* while the first handler is suspended starts a second handler, which sees
\* the same sessionPath and manifest.
ClickableAgain ==
    /\ modal = "open"
    /\ rec.pc \in InFlight
    /\ again.pc = "none"

Clicked == [again EXCEPT !.session = rec.session, !.mime = rec.mime]

\* modal.close(); resolve() at the end of a handler (lines 166-167 and
\* 182-183): the promise awaited at line 155 resolves and
\* promptAndRecoverIfAny returns.
closes(rNext) ==
    modal' = IF rNext.pc = "returned" THEN "closed" ELSE modal

\* promptAndRecoverIfAny has returned to onload.
Returned ==
    \/ modal = "closed"
    \/ rec.pc = "returned" /\ modal = "none"

\* The Discard button, line 164-165: deleteSession(sessionPath) is called and
\* awaited.
discardClicked(r, rNext) ==
    rNext = [r EXCEPT !.pc = "discarding", !.decision = "discard"]

\* (variant: a removal that fails is raised by deleteSession, and the
\* handler stops at line 165)
discardEndsUncaught(r, rNext, outcome) ==
    /\ disk' = rmdir(disk, r.session, outcome)
    /\ written' = forget(written, r.session, outcome)
    /\ rNext = [r EXCEPT !.pc = IF outcome = "removed" THEN "returned"
                                ELSE "raised",
                         !.deletion = outcome,
                         !.kept = sessionPath,
                         !.gone = r.session \notin DOMAIN disk']

\* Lines 165-167: the removal ends (deleteSession never raises) and the
\* handler finishes.
discardEnds(r, rNext, outcome) ==
    /\ disk' = rmdir(disk, r.session, outcome)
    /\ written' = forget(written, r.session, outcome)
    /\ rNext = [r EXCEPT !.pc = "returned", !.deletion = outcome,
                         !.kept = sessionPath,
                         !.gone = r.session \notin DOMAIN disk']

\* await process(blob, fileName), line 175, is entered with this blob.
handOver(r, blob) ==
    [r EXCEPT !.pc = "processing", !.blob = blob]

processCall(r, blob) ==
    [type |-> blob.type, bytes |-> blob.bytes,
     ext |-> getExtensionFromMime(r.mime)]

\* (variant: chunk files are used only when there is no legacy file)
hasChunksNoLegacy(dir) == DOMAIN dir.chunks # {} /\ DOMAIN dir.legacy = {}

\* Line 207: chunk files were listed.
hasChunks(dir) == DOMAIN dir.chunks # {}

\* (variant: a session without data hands process an empty blob)
noRecordingDataEmptyBlob(seen, rNext) ==
    /\ rNext = handOver(seen, [type |-> seen.mime, bytes |-> <<>>])
    /\ processed' = Append(processed,
                        processCall(seen, [type |-> seen.mime,
                                           bytes |-> <<>>]))
    /\ UNCHANGED <<context, ctxState, refCount, closedBy>>

\* Line 246 and lines 178-183: neither chunk files nor the legacy file
\* exist, assembleBlobFromSession raises "No recording data found in
\* session", the handler reports it and finishes.
noRecordingData(seen, rNext) ==
    /\ rNext = [seen EXCEPT !.pc = "returned", !.noData = TRUE]
    /\ UNCHANGED <<processed, context, ctxState, refCount, closedBy>>

\* The Recover button, lines 169-175 with assembleBlobFromSession, lines
\* 199-247, up to the first await that another party resolves: the chunk
\* files are listed, sorted and read; a recording that is not audio/wav
\* acquires the shared context and starts decoding, or gets the raw blob
\* when the context cannot be created (line 230); without chunk files the
\* legacy recording.<ext> is read; without that the handler fails.
recoverClicked(r, rNext) ==
    IF r.session \notin DOMAIN disk
    THEN /\ rNext = [r EXCEPT !.pc = "returned", !.decision = "recover",
                              !.gone = TRUE]
         /\ UNCHANGED <<processed, context, ctxState, refCount, closedBy>>
    ELSE LET dir == disk[r.session]
             ext == getExtensionFromMime(r.mime)
             seen == [r EXCEPT
                        !.decision = "recover",
                        !.log = IF r.session \in DOMAIN written
                                THEN written[r.session] ELSE <<>>,
                        !.listed = Cardinality(DOMAIN dir.chunks),
                        !.reads = Cardinality(DOMAIN dir.chunks),
                        !.manifestCount = dir.manifest.chunkCount]
         IN  IF hasChunks(dir)
             THEN LET raw == assembleChunks(dir)
                      rawBlob == [type |-> r.mime, bytes |-> raw]
                  IN  IF r.mime # "audio/wav"
                      THEN \/ /\ getContext
                              /\ rNext = [seen EXCEPT !.pc = "decoding",
                                                      !.raw = raw,
                                                      !.acquired = TRUE]
                              /\ UNCHANGED processed
                           \/ /\ getContextFails
                              /\ rNext = handOver(
                                    [seen EXCEPT !.raw = raw,
                                                 !.transcode = "failed"],
                                    rawBlob)
                              /\ processed' = Append(processed,
                                    processCall(r, rawBlob))
                      ELSE /\ rNext = handOver([seen EXCEPT !.raw = raw],
                                                rawBlob)
                           /\ processed' = Append(processed,
                                 processCall(r, rawBlob))
                           /\ UNCHANGED <<context, ctxState, refCount,
                                          closedBy>>
             ELSE IF ext \in DOMAIN dir.legacy
             THEN /\ rNext = handOver([seen EXCEPT !.reads = 1],
                                [type |-> r.mime, bytes |-> dir.legacy[ext]])
                  /\ processed' = Append(processed,
                        processCall(r, [type |-> r.mime,
                                        bytes |-> dir.legacy[ext]]))
                  /\ UNCHANGED <<context, ctxState, refCount, closedBy>>
             ELSE noRecordingData(seen, rNext)

\* (variant: a failed conversion leaves the handler without a blob)
transcodedOrNothing(r, converted, buffer) ==
    IF converted THEN encodeWAV(buffer) ELSE NoBlob

\* Lines 223-233: the WAV blob when decodeAudioData, encodeWAV and the
\* release of the finally block all succeeded, the raw blob otherwise.
transcoded(r, converted, buffer) ==
    IF converted THEN encodeWAV(buffer)
    ELSE [type |-> r.mime, bytes |-> r.raw]

\* Lines 223-229: decodeAudioData resolves with a buffer, which encodeWAV
\* turns into the WAV blob, or one of the two fails (decoded is FALSE); the
\* finally block calls releaseContext, which runs up to its await.  A
\* failure of decoding, of encoding or of the release makes the raw blob the
\* result (lines 230-233).
decodeEnds(r, rNext, decoded, buffer) ==
    \E outcome \in Outcomes :
        /\ releaseStart(outcome)
        /\ LET converted == decoded /\ outcome # "raise"
               result == transcoded(r, converted, buffer)
               done == [r EXCEPT !.transcode = IF converted THEN "ok"
                                               ELSE "failed",
                                 !.buffer = IF converted THEN buffer
                                            ELSE NoBuffer]
           IN  IF outcome = "await"
               THEN /\ rNext = [done EXCEPT !.pc = "releasing",
                                            !.blob = result,
                                            !.closing = context]
                    /\ UNCHANGED processed
               ELSE /\ rNext = handOver(done, result)
                    /\ processed' = Append(processed,
                                           processCall(r, result))

\* The close() awaited by releaseContext at line 228 resolves; the blob is
\* returned to the handler, which calls process (line 175).
transcodeReleased(r, rNext) ==
    /\ closeResolved(r.closing)
    /\ rNext = [handOver(r, r.blob) EXCEPT !.closing = 0]
    /\ processed' = Append(processed, processCall(r, r.blob))

\* process resolves: lines 176-177 and 182-183, the session is deleted.
processResolves(r, rNext, outcome) ==
    /\ disk' = rmdir(disk, r.session, outcome)
    /\ written' = forget(written, r.session, outcome)
    /\ rNext = [r EXCEPT !.pc = "returned", !.deletion = outcome,
                         !.kept = sessionPath,
                         !.gone = r.session \notin DOMAIN disk']

\* A handler that lets the rejection of process escape: nothing after line
\* 175 runs, the modal stays open and resolve is not called.
processRejectsUncaught(r, rNext) ==
    rNext = [r EXCEPT !.pc = "raised", !.rejected = TRUE,
                      !.gone = r.session \notin DOMAIN disk]

\* process rejects: lines 178-183.
processRejects(r, rNext) ==
    rNext = [r EXCEPT !.pc = "returned", !.rejected = TRUE,
                      !.gone = r.session \notin DOMAIN disk]

\* ---- the handler of the first click ---------------------------------------

ClickDiscard ==
    /\ rec.pc = "prompt" /\ modal = "open"
    /\ discardClicked(rec, rec')
    /\ UNCHANGED <<fsVars, trmVars, obsVars, acmVars, again, modal>>
    /\ UNCHANGED uiVars

DiscardEnds(outcome) ==
    /\ rec.pc = "discarding"
    /\ discardEnds(rec, rec', outcome)
    /\ closes(rec')
    /\ UNCHANGED <<clock, tmpRoot, trmVars, lastResult, processed, starts,
                   appends, crashes, acmVars, again>>
    /\ UNCHANGED uiVars

ClickRecover ==
    /\ rec.pc = "prompt" /\ modal = "open"
    /\ recoverClicked(rec, rec')
    /\ closes(rec')
    /\ UNCHANGED <<fsVars, trmVars, written, lastResult, starts, appends,
                   crashes, caller, acmOps, forceUsed, forceLog, strayUsed,
                   scopeLog, pattern, again>>
    /\ UNCHANGED uiVars

DecodeEnds(decoded, buffer) ==
    /\ rec.pc = "decoding"
    /\ decodeEnds(rec, rec', decoded, buffer)
    /\ UNCHANGED <<fsVars, trmVars, written, lastResult, starts, appends,
                   crashes, caller, acmOps, forceUsed, forceLog, strayUsed,
                   scopeLog, pattern, again, modal>>
    /\ UNCHANGED uiVars

TranscodeReleased ==
    /\ rec.pc = "releasing"
    /\ transcodeReleased(rec, rec')
    /\ UNCHANGED <<fsVars, trmVars, written, lastResult, starts, appends,
                   crashes, caller, acmOps, forceUsed, forceLog, strayUsed,
                   scopeLog, pattern, again, modal>>
    /\ UNCHANGED uiVars

ProcessResolves(outcome) ==
    /\ rec.pc = "processing"
    /\ processResolves(rec, rec', outcome)
    /\ closes(rec')
    /\ UNCHANGED <<clock, tmpRoot, trmVars, lastResult, processed, starts,
                   appends, crashes, acmVars, again>>
    /\ UNCHANGED uiVars

ProcessRejects ==
    /\ rec.pc = "processing"
    /\ processRejects(rec, rec')
    /\ closes(rec')
    /\ UNCHANGED <<fsVars, trmVars, obsVars, acmVars, again>>
    /\ UNCHANGED uiVars

\* ---- the handler of a click made while the first handler is suspended ----

ClickDiscardAgain ==
    /\ ClickableAgain
    /\ discardClicked(Clicked, again')
    /\ UNCHANGED <<fsVars, trmVars, obsVars, acmVars, rec, modal>>
    /\ UNCHANGED uiVars

DiscardEndsAgain(outcome) ==
    /\ again.pc = "discarding"
    /\ discardEnds(again, again', outcome)
    /\ closes(again')
    /\ UNCHANGED <<clock, tmpRoot, trmVars, lastResult, processed, starts,
                   appends, crashes, acmVars, rec>>
    /\ UNCHANGED uiVars

ClickRecoverAgain ==
    /\ ClickableAgain
    /\ recoverClicked(Clicked, again')
    /\ closes(again')
    /\ UNCHANGED <<fsVars, trmVars, written, lastResult, starts, appends,
                   crashes, caller, acmOps, forceUsed, forceLog, strayUsed,
                   scopeLog, pattern, rec>>
    /\ UNCHANGED uiVars

DecodeEndsAgain(decoded, buffer) ==
    /\ again.pc = "decoding"
    /\ decodeEnds(again, again', decoded, buffer)
    /\ UNCHANGED <<fsVars, trmVars, written, lastResult, starts, appends,
                   crashes, caller, acmOps, forceUsed, forceLog, strayUsed,
                   scopeLog, pattern, rec, modal>>
    /\ UNCHANGED uiVars

TranscodeReleasedAgain ==
    /\ again.pc = "releasing"
    /\ transcodeReleased(again, again')
    /\ UNCHANGED <<fsVars, trmVars, written, lastResult, starts, appends,
                   crashes, caller, acmOps, forceUsed, forceLog, strayUsed,
                   scopeLog, pattern, rec, modal>>
    /\ UNCHANGED uiVars

ProcessResolvesAgain(outcome) ==
    /\ again.pc = "processing"
    /\ processResolves(again, again', outcome)
    /\ closes(again')
    /\ UNCHANGED <<clock, tmpRoot, trmVars, lastResult, processed, starts,
                   appends, crashes, acmVars, rec>>
    /\ UNCHANGED uiVars

ProcessRejectsAgain ==
    /\ again.pc = "processing"
    /\ processRejects(again, again')
    /\ closes(again')
    /\ UNCHANGED <<fsVars, trmVars, obsVars, acmVars, rec>>
    /\ UNCHANGED uiVars

\* The user dismisses the modal (Escape, the close button, a click outside
\* it): Modal.close() runs; the class sets no onClose, so nothing calls
\* resolve (lines 155-186).
DismissModal ==
    /\ modal = "open"
    /\ modal' = "dismissed"
    /\ UNCHANGED <<fsVars, trmVars, obsVars, acmVars, rec, again>>
    /\ UNCHANGED uiVars

\* The process is killed and the application restarted: what is on disk
\* stays, everything in memory starts again (a new plugin instance, a new
\* AudioContextManager, onload running promptAndRecoverIfAny).
Crash ==
    /\ crashes < MaxCrashes
    /\ crashes' = crashes + 1
    /\ sessionPath' = 0
    /\ chunkIndex' = 0
    /\ mimeType' = ""
    /\ sessionFilePath' = NoFile
    /\ call' = NoCall
    /\ rec' = NoRecovery
    /\ again' = NoClick
    /\ modal' = "none"
    /\ lastResult' = NoResult
    /\ processed' = <<>>
    /\ context' = 0
    /\ ctxState' = <<>>
    /\ closedBy' = <<>>
    /\ refCount' = 0
    /\ UNCHANGED <<fsVars, written, starts, appends, caller, acmOps,
                   forceUsed, forceLog, strayUsed, scopeLog, pattern>>
    /\ UNCHANGED uiVars

\* ------------------------------------------------------------------------
\* Claims about the AudioContextManager
\* ------------------------------------------------------------------------

\* C7: in a run made of getContext and releaseContext calls only (releases
\* with no matching getContext included), no caller that still holds an
\* unreleased handle has its context closed by a releaseContext call.
C7_HolderNeverClosedByRelease ==
    ~forceUsed =>
        \A c \in Callers :
            caller[c].held # 0 => closedBy[caller[c].held] # "release"

\* C9: refCount is never negative.
C9_RefCountNeverNegative == refCount >= 0

\* C10: a withContext scope that no other caller's manager call overlapped
\* has released exactly once when it ends, and leaves refCount as it found it.
C10_ScopeRestoresRefCount ==
    \A c \in Callers :
        (scopeLog[c].state = "done" /\ ~scopeLog[c].interfered) =>
            /\ scopeLog[c].releases = 1
            /\ scopeLog[c].after = scopeLog[c].before

\* C8: starting with nothing acquired (refCount 0, no context), two
\* getContext calls followed by two releaseContext calls: the context is
\* still open and cached after the first release; after the second release
\* refCount is 0 and the context is closed and cleared; a getContext that
\* follows creates a different, running context.
C8_AcquireTwiceReleaseTwice ==
    /\ pattern.phase = 3 =>
          /\ ~pattern.early
          /\ context = pattern.first
          /\ ctxState[pattern.first] = "running"
          /\ refCount = 1
    /\ pattern.phase = 4 => refCount = 0
    /\ pattern.phase = 5 =>
          /\ refCount = 0
          /\ context = 0
          /\ ctxState[pattern.first] = "closed"
    /\ pattern.phase = 6 =>
          /\ pattern.second # pattern.first
          /\ context = pattern.second
          /\ ctxState[pattern.second] = "running"
          /\ ctxState[pattern.first] = "closed"
          /\ refCount = 1

\* The whole sequence of C8 has run, up to the re-acquisition.
C8_Witness == pattern.phase = 6

\* C12: every context the manager created is closed, except the one it has
\* cached: at most one non-closed context exists at any time, and when
\* getContext has created a replacement, every earlier context is closed.
C12_AtMostOneOpenContext ==
    \A id \in 1..Len(ctxState) :
        ctxState[id] # "closed" => id = context

\* A replacement context has been created after the first one was closed.
C12_Witness ==
    /\ Len(ctxState) >= 2
    /\ context = 2
    /\ ctxState[1] = "closed"
    /\ ctxState[2] = "running"

\* C11: when a forceClose call has completed, it has returned normally and
\* left the manager with no context and refCount 0, also when close() failed.
C11_ForceCloseClearsAndSwallows ==
    forceLog.outcome # "none" =>
        /\ forceLog.outcome = "ok"
        /\ forceLog.cleared

\* ------------------------------------------------------------------------
\* Claims about recording and recovery
\* ------------------------------------------------------------------------

\* The chunk writes of log were made with strictly increasing indices.
Increasing(log) ==
    \A k \in 1..(Len(log) - 1) : log[k].index < log[k + 1].index

\* Every index of log fits the padding width of the chunk file names.
WithinPadding(log) ==
    \A k \in 1..Len(log) : Len(DecimalString(log[k].index)) <= PadWidth

\* The byte stream appended by the chunk writes of log.
Stream(log) == concatParts([k \in 1..Len(log) |-> log[k].blob])

\* What recovery lists and reads from session directory d is what log
\* appended, in append order.
ListedAsAppended(d, log) ==
    /\ listChunks(disk[d].chunks) =
          [k \in 1..Len(log) |-> chunkName(log[k].index)]
    /\ readChunks(disk[d].chunks) = Stream(log)

\* C1 as stated: whenever the chunks of a session directory were appended
\* with non-empty blobs and increasing indices, the sorted listing of its
\* chunk files is in append order and the concatenation of their contents
\* is the appended byte stream.  (The claim's indices 0..N-1 are the case
\* without gaps; a listing that misorders two of the names misorders them
\* in every directory that contains both.)
C1_ListingInAppendOrder ==
    \A d \in DOMAIN disk :
        Increasing(written[d]) => ListedAsAppended(d, written[d])

\* C1 amended: the same, for indices that fit the padding width of four
\* digits (indices up to 9999, that is N <= 10000).
C1_ListingInAppendOrderWithinPadding ==
    \A d \in DOMAIN disk :
        (Increasing(written[d]) /\ WithinPadding(written[d]))
            => ListedAsAppended(d, written[d])

\* Three chunks were appended in increasing order, and a recovery run has
\* listed and read them.
C1_Witness ==
    /\ rec.session \in DOMAIN disk
    /\ rec.reads = 3
    /\ Len(written[rec.session]) = 3
    /\ Increasing(written[rec.session])
    /\ WithinPadding(written[rec.session])
    /\ rec.raw = Stream(written[rec.session])

\* The run of promptAndRecoverIfAny is over and the session directory has
\* been dealt with: it is gone, or its removal was attempted and failed.
Removed == rec.gone \/ rec.deletion \in {"failed", "partial"}

\* The blob is the appended stream of log as recorded, or a WAV encoding of
\* what the decoder made of it.
ArtifactOf(given, log, mime) ==
    \/ given.type = mime /\ given.bytes = Stream(log)
    \/ /\ given.type = "audio/wav"
       /\ \E b \in DecodedBuffers : given.bytes = encodeWAV(b).bytes

\* C2: a recovery run on an audio/webm session with three appended
\* fragments, in which Recover is chosen, hands process the concatenation
\* of the three fragments (or its WAV transcoding), and the session
\* directory no longer exists when the run returns (a removal that was
\* attempted and failed apart).
C2_RecoverEndToEnd ==
    (/\ rec.pc = "returned"
     /\ rec.decision = "recover"
     /\ rec.mime = "audio/webm"
     /\ Len(rec.log) = 3
     /\ Increasing(rec.log) /\ WithinPadding(rec.log))
    => /\ Len(processed) = 1
       /\ ArtifactOf(processed[1], rec.log, rec.mime)
       /\ Removed

\* Discard was the user's choice: the Discard handler has run to its end
\* and no other click was made in the run.
DiscardChosen ==
    /\ rec.pc = "returned"
    /\ rec.decision = "discard"
    /\ again.pc = "none"

\* C3 as stated: after Discard, process was not invoked, no fragment was
\* read, no context acquired, and the session directory no longer exists
\* when the run returns.
C3_DiscardEndToEnd ==
    DiscardChosen
    => /\ processed = <<>>
       /\ rec.reads = 0
       /\ ~rec.acquired
       /\ rec.gone

\* C3 amended: the same, except that the session directory may still exist
\* when its removal failed (deleteSession logs the failure and returns).
C3_DiscardEndToEndUnlessRemovalFails ==
    DiscardChosen
    => /\ processed = <<>>
       /\ rec.reads = 0
       /\ ~rec.acquired
       /\ Removed

\* Discard was chosen for a session and its directory has been removed.
C3_Witness ==
    /\ DiscardChosen
    /\ rec.deletion = "removed"
    /\ rec.gone

\* C4: when Recover is chosen and process rejects, the session is deleted
\* before the run returns (a removal that was attempted and failed apart),
\* and process was invoked once only.
C4_DeletedAfterProcessFails ==
    (rec.pc = "returned" /\ rec.decision = "recover" /\ rec.rejected)
    => /\ Removed
       /\ Len(processed) = 1

\* The blobs that are on disk after the chunk writes of log: for every
\* index the blob written last.
LastWritten(log) ==
    { log[k].blob : k \in { j \in 1..Len(log) :
          \A l \in (j + 1)..Len(log) : log[l].index # log[j].index } }

RECURSIVE TotalLength(_)
TotalLength(blobs) ==
    IF blobs = {} THEN 0
    ELSE LET b == CHOOSE x \in blobs : TRUE
         IN  Len(b) + TotalLength(blobs \ {b})

Bytes(blob) == { blob[i] : i \in 1..Len(blob) }

\* C5: whatever the manifest counts, the raw blob that recovery assembles
\* from chunk files holds every chunk file of the session directory: its
\* bytes are those of the chunks on disk, all of them and nothing else.
C5_AssemblesEveryChunkFile ==
    rec.reads > 0 /\ rec.log # <<>>
    => /\ rec.listed = Cardinality(LastWritten(rec.log))
       /\ Len(rec.raw) = TotalLength(LastWritten(rec.log))
       /\ \A b \in LastWritten(rec.log) : Bytes(b) \subseteq Bytes(rec.raw)

\* Recovery assembled a session whose manifest counts fewer chunks than the
\* directory holds (the process died between the chunk write and the
\* manifest update).
C5_Witness ==
    /\ rec.reads > 0
    /\ rec.log # <<>>
    /\ rec.manifestCount < rec.listed
    /\ rec.raw = Stream(rec.log)

\* C6 as stated: an appendChunk(blob, i) call whose manifest update failed
\* returns normally, and the chunk file of index i holds the blob when it
\* returns.
C6_ChunkSurvivesManifestFailure ==
    (lastResult.op = "append" /\ lastResult.manifestFailed)
    => /\ lastResult.outcome = "ok"
       /\ lastResult.onDisk

\* C6 amended: the same, for a call during which the session directory was
\* not removed (a removal made while the call is suspended takes the chunk
\* file with it, and makes the manifest update fail as well).
C6_ChunkSurvivesManifestFailureUnlessDeleted ==
    (lastResult.op = "append" /\ lastResult.manifestFailed
        /\ ~lastResult.deleted)
    => /\ lastResult.outcome = "ok"
       /\ lastResult.onDisk

\* An appendChunk call has returned after its manifest update failed, with
\* the session directory left alone.
C6_Witness ==
    /\ lastResult.op = "append"
    /\ lastResult.manifestFailed
    /\ ~lastResult.deleted
    /\ lastResult.outcome = "ok"
    /\ lastResult.onDisk

\* ------------------------------------------------------------------------
\* Claims about the recovery prompt
\* ------------------------------------------------------------------------

\* C13: in one run of promptAndRecoverIfAny process is invoked at most once,
\* and the Discard handler and the Recover handler are not both run,
\* whatever buttons are clicked while the modal is open.
C13_DecisionActedOnce ==
    /\ Len(processed) <= 1
    /\ ~(/\ rec.decision # "none"
         /\ again.decision # "none"
         /\ rec.decision # again.decision)

\* C14: when the recovery modal has been closed, by a button's handler or by
\* the user dismissing it, Discard or Recover has been taken, and once no
\* handler is running any more promptAndRecoverIfAny has returned.
C14_ClosedModalHasOutcome ==
    modal \in {"closed", "dismissed"} =>
        /\ rec.decision # "none"
        /\ (rec.pc \notin InFlight /\ again.pc \notin InFlight) => Returned

\* C15: once Discard or Recover has been clicked, promptAndRecoverIfAny
\* eventually returns to its caller (unless the application is killed
\* first), whether reconstruction, process or deletion succeeds or fails.
C15_ChosenRunReturns ==
    (rec.decision # "none") ~> (Returned \/ rec.pc = "start")

\* Recover was chosen, process rejected, and the run has returned.
C15_Witness ==
    /\ Returned
    /\ rec.decision = "recover"
    /\ rec.rejected
    /\ again.pc = "none"

\* The session a run of promptAndRecoverIfAny offers is the greatest on disk.
HandlesGreatest ==
    rec.session # 0 => \A id \in DOMAIN disk : id <= rec.session

\* A step leaves every session directory but the offered one as it was.
OthersUnchanged ==
    \A id \in DOMAIN disk :
        id # rec.session => id \in DOMAIN disk' /\ disk'[id] = disk[id]

\* C16: with several abandoned sessions on disk, a run of
\* promptAndRecoverIfAny handles only the session whose name is greatest;
\* every other session directory is left unchanged on disk.
C16_OnlyLatestSessionHandled ==
    []HandlesGreatest /\ [][OthersUnchanged]_vars

\* Two sessions were left; the run removed the later one and has returned,
\* and the earlier one is still there.
C16_Witness ==
    /\ Returned
    /\ rec.session = 2
    /\ rec.deletion = "removed"
    /\ DOMAIN disk = {1}

\* A run of promptAndRecoverIfAny that starts with no tmp folder, or with
\* no session directory in it.
NothingToRecover == rec.pc = "start" /\ (~tmpRoot \/ DOMAIN disk = {})

\* C17: when the tmp root does not exist or holds no session directory,
\* promptAndRecoverIfAny returns without prompting, without invoking
\* process and without changing anything on disk.
C17_NoSessionNoPrompt ==
    [][(NothingToRecover /\ rec'.pc # "start") =>
          /\ rec'.pc = "returned"
          /\ rec'.decision = "none"
          /\ modal' = "none"
          /\ processed' = <<>>
          /\ tmpRoot' = tmpRoot
          /\ disk' = disk]_vars

\* A run has returned on a vault that has no tmp folder.
C17_Witness ==
    /\ rec.pc = "returned"
    /\ rec.session = 0
    /\ ~tmpRoot
    /\ crashes = 0

\* The first click on Recover, on a session directory that is on disk.
RecoverChosen ==
    /\ rec.pc = "prompt"
    /\ rec'.decision = "recover"
    /\ rec.session \in DOMAIN disk

\* A session directory without chunk file and without legacy file.
EmptySession(dir) == DOMAIN dir.chunks = {} /\ DOMAIN dir.legacy = {}

\* C18: a session directory with no chunk file and no legacy recording
\* lists no fragments; recovering it fails with the no-recording-data
\* error, process is not invoked, and the run ends there, leaving the disk
\* as it was.
C18_EmptySessionNoData ==
    /\ [][(RecoverChosen /\ EmptySession(disk[rec.session])) =>
             /\ rec'.listed = 0
             /\ rec'.noData
             /\ rec'.pc = "returned"
             /\ modal' = "closed"
             /\ processed' = processed
             /\ disk' = disk]_vars
    /\ [](rec.noData => processed = <<>> /\ rec.blob = NoBlob)

\* Recovery of a session that was started (its manifest is there) and has
\* no data was chosen, and the run has returned.
C18_Witness ==
    /\ Returned
    /\ rec.noData
    /\ rec.session \in DOMAIN disk
    /\ disk[rec.session].manifest.status = "ok"

\* What a handler whose conversion to WAV failed has done.
RawDelivered(r) ==
    /\ r.mime # "audio/wav"
    /\ r.listed > 0
    /\ ~r.noData
    /\ r.pc \in {"releasing", "processing", "returned"}
    /\ r.pc = "releasing" => r.blob = [type |-> r.mime, bytes |-> r.raw]
    /\ r.pc \in {"processing", "returned"} =>
          \E i \in 1..Len(processed) :
              processed[i] = [type |-> r.mime, bytes |-> r.raw,
                              ext |-> getExtensionFromMime(r.mime)]

\* C19: when the recording is not audio/wav and acquiring the context,
\* decoding or encoding fails, process is still handed a blob: the
\* concatenation of the chunk files as read, with the manifest's mimeType;
\* the failure does not make the recovery fail.
C19_TranscodeFailureDeliversRaw ==
    /\ rec.transcode = "failed" => RawDelivered(rec)
    /\ again.transcode = "failed" => RawDelivered(again)

\* decodeAudioData (or encodeWAV, or the release) failed after the context
\* had been acquired, process got the raw blob and resolved.
C19_Witness ==
    /\ rec.transcode = "failed"
    /\ rec.acquired
    /\ rec.pc = "returned"
    /\ ~rec.rejected
    /\ again.pc = "none"

\* C20: the legacy recording.<ext> is used only when the session directory
\* holds no chunk file: with at least one chunk file the blob is built from
\* the chunk files alone; a legacy blob handed to process has the bytes of
\* the file, unchanged, and the shared context is not acquired for it.
C20_LegacyOnlyWithoutChunks ==
    [][RecoverChosen =>
         LET dir == disk[rec.session]
             ext == getExtensionFromMime(rec.mime)
         IN  /\ DOMAIN dir.chunks # {} =>
                   /\ rec'.raw = readChunks(dir.chunks)
                   /\ rec'.reads = Cardinality(DOMAIN dir.chunks)
                   /\ rec'.pc = "processing" => rec'.blob.bytes = rec'.raw
             /\ (DOMAIN dir.chunks = {} /\ ext \in DOMAIN dir.legacy) =>
                   /\ rec'.pc = "processing"
                   /\ rec'.blob = [type |-> rec.mime,
                                   bytes |-> dir.legacy[ext]]
                   /\ processed' = Append(processed,
                         [type |-> rec.mime, bytes |-> dir.legacy[ext],
                          ext |-> ext])
                   /\ ~rec'.acquired
                   /\ context' = context
                   /\ refCount' = refCount
                   /\ ctxState' = ctxState]_vars

\* A legacy recording was handed to process and the run has returned.
C20_Witness ==
    /\ Returned
    /\ rec.decision = "recover"
    /\ rec.listed = 0
    /\ rec.reads = 1
    /\ ~rec.acquired
    /\ rec.blob.bytes # <<>>
    /\ Len(processed) = 1
    /\ processed[1].bytes = rec.blob.bytes

\* The manifest.json of a session directory is missing or unparsable.
UnusableManifest(id) == disk[id].manifest.status # "ok"

\* The scan of a run whose latest session has no usable manifest offers
\* that session, with audio/webm as its type.
OfferedAsWebm ==
    (/\ rec.pc = "start" /\ rec'.pc # "start"
     /\ findLatestSessionPath # 0
     /\ UnusableManifest(findLatestSessionPath)) =>
        /\ rec'.pc = "prompt"
        /\ rec'.session = findLatestSessionPath
        /\ rec'.mime = "audio/webm"
        /\ modal' = "open"

\* Recover on such a session reads every chunk file present.
AllChunksAssembled ==
    (/\ RecoverChosen
     /\ UnusableManifest(rec.session)
     /\ DOMAIN disk[rec.session].chunks # {}) =>
        /\ rec'.listed = Cardinality(DOMAIN disk[rec.session].chunks)
        /\ rec'.raw = readChunks(disk[rec.session].chunks)
        /\ rec'.pc \in {"decoding", "processing"}
        /\ rec'.pc = "processing" =>
              rec'.blob = [type |-> "audio/webm", bytes |-> rec'.raw]

\* What was assembled is handed to process, converted to WAV or as it is.
AssembledDelivered ==
    (rec.pc \in {"prompt", "decoding", "releasing"}
        /\ rec'.pc = "processing") =>
        /\ processed' = Append(processed,
                            [type |-> rec'.blob.type,
                             bytes |-> rec'.blob.bytes,
                             ext |-> getExtensionFromMime(rec'.mime)])
        /\ \/ rec'.blob = [type |-> rec'.mime, bytes |-> rec'.raw]
           \/ rec'.blob.type = "audio/wav"
           \/ rec'.listed = 0

\* C21: when the manifest of the most recent session is missing or cannot
\* be parsed, the run does not fail or skip the session: it offers it with
\* mimeType audio/webm, and Recover assembles and delivers all the chunk
\* files present.
C21_UnusableManifestDefaultsToWebm ==
    /\ [][OfferedAsWebm]_vars
    /\ [][AllChunksAssembled]_vars
    /\ [][AssembledDelivered]_vars

\* A session of three chunk files with a torn manifest was offered, Recover
\* was chosen and process has been handed the recording.
C21_Witness ==
    /\ rec.pc = "processing"
    /\ rec.session \in DOMAIN disk
    /\ disk[rec.session].manifest.status = "corrupt"
    /\ rec.mime = "audio/webm"
    /\ rec.listed = 3
    /\ rec.acquired
    /\ Len(processed) = 1
    /\ again.pc = "none"

\* The deleteSession(sessionPath) call of a handler could not remove the
\* directory, or not all of it.
RemovalFailed(r) == r.deletion \in {"failed", "partial"}

\* deleteSession returned normally and the handler went on to its end; the
\* directory is still there and is what the next scan finds.
FailedRemovalLeavesSession ==
    /\ RemovalFailed(rec) => rec.pc = "returned"
    /\ RemovalFailed(again) => again.pc = "returned"
    /\ (RemovalFailed(rec) /\ again.pc = "none") =>
          /\ Returned
          /\ rec.session \in DOMAIN disk
          /\ findLatestSessionPath = rec.session

\* A run that finds a session directory offers it.
FoundIsOffered ==
    (rec.pc = "start" /\ rec'.pc # "start"
        /\ findLatestSessionPath # 0) =>
        /\ rec'.pc = "prompt"
        /\ rec'.session = findLatestSessionPath
        /\ modal' = "open"

\* C22: deleteSession never raises to its caller, also when the removal
\* fails or fails part-way; the session whose directory could not be
\* removed is still on disk, is what the next promptAndRecoverIfAny run
\* finds, and is offered again.
C22_FailedRemovalOfferedAgain ==
    []FailedRemovalLeavesSession /\ [][FoundIsOffered]_vars

\* Discard was chosen, the removal failed part-way, the run has returned and
\* the directory is what the next load will find.
C22_Witness ==
    /\ Returned
    /\ rec.decision = "discard"
    /\ rec.deletion = "partial"
    /\ again.pc = "none"
    /\ findLatestSessionPath = rec.session

\* An appendChunk call, with or without index, whose blob is empty.
EmptyAppend == appends' = appends + 1 /\ lastResult'.empty

\* C23: appendChunk with an empty (size 0) or missing blob is a no-op: no
\* file is created, every chunk file and the manifest stay as they are,
\* and so does the manager's in-memory session state.
C23_EmptyAppendIsNoOp ==
    [][EmptyAppend =>
          /\ disk' = disk
          /\ tmpRoot' = tmpRoot
          /\ sessionPath' = sessionPath
          /\ chunkIndex' = chunkIndex
          /\ mimeType' = mimeType
          /\ sessionFilePath' = sessionFilePath
          /\ call' = call
          /\ lastResult'.outcome = "ok"]_vars

\* An empty blob was appended to a session that already has a chunk file.
C23_Witness ==
    /\ lastResult.empty
    /\ lastResult.op = "append"
    /\ sessionPath \in DOMAIN disk
    /\ disk[sessionPath].manifest.chunkCount > 0
    /\ DOMAIN disk[sessionPath].chunks # {}

\* The manifest update of an appendChunk(blob, i) call ends.
ManifestStepEnds == call.pc = "appendManifest" /\ lastResult'.op = "append"

\* chunkCount of the manifest of session id.
CountOf(d, id) == d[id].manifest.chunkCount

\* C24: when the manifest update of an appendChunk(blob, i) call succeeds,
\* chunkCount afterwards is the greater of chunkCount before and i + 1;
\* the manifest update of such a call never lowers chunkCount, also when
\* indices come out of order or are repeated.
C24_ChunkCountIsRunningMax ==
    /\ [][(ManifestStepEnds /\ ~lastResult'.manifestFailed) =>
              /\ sessionPath \in DOMAIN disk
              /\ CountOf(disk', sessionPath) =
                    IF CountOf(disk, sessionPath) > call.index + 1
                    THEN CountOf(disk, sessionPath) ELSE call.index + 1]_vars
    /\ [][ManifestStepEnds =>
              \A id \in DOMAIN disk :
                  (/\ disk[id].manifest.status = "ok"
                   /\ disk'[id].manifest.status = "ok") =>
                      CountOf(disk', id) >= CountOf(disk, id)]_vars

\* A chunk was appended with an index below one appended before, and the
\* manifest still counts up to the greatest index.
C24_Witness ==
    /\ lastResult.op = "append"
    /\ ~lastResult.manifestFailed
    /\ sessionPath \in DOMAIN written
    /\ Len(written[sessionPath]) >= 2
    /\ written[sessionPath][Len(written[sessionPath])].index + 1
          < CountOf(disk, sessionPath)

\* C25: fragments are write-once: whatever appendChunk calls are made on a
\* session, with or without an index, a chunk file that has been written
\* keeps its content for as long as it exists.
C25_ChunkFilesWriteOnce ==
    [][(call.pc = "appendWrite") =>
          \A id \in DOMAIN disk :
              \A name \in DOMAIN disk[id].chunks :
                  (id \in DOMAIN disk'
                      /\ name \in DOMAIN disk'[id].chunks) =>
                      disk'[id].chunks[name] = disk[id].chunks[name]]_vars

\* The last startSession call was rejected.
StartFailed == lastResult.op = "start" /\ lastResult.outcome = "raised"

\* C26: when the session directory cannot be created, startSession fails
\* to its caller and no session becomes active: the failed call leaves no
\* manifest, and an appendChunk call that follows it writes nothing.
C26_FailedStartLeavesNoSession ==
    /\ [](StartFailed => (sessionPath = 0 \/ sessionPath \notin DOMAIN disk))
    /\ [][(/\ call.pc \in {"appendWrite", "snapshotWrite"}
           /\ sessionPath # 0
           /\ sessionPath \notin DOMAIN disk) => disk' = disk]_vars

\* C27: recovery runs strictly before any new session is started: from
\* plugin load until promptAndRecoverIfAny has returned no start-recording
\* action runs, so no session is created while a recovery run is in
\* progress.
C27_NoStartBeforeRecoveryReturns ==
    [][(starts' = starts + 1) => Returned]_vars

\* ------------------------------------------------------------------------
\* Timer (src/Timer.ts, lines 1-51)
\* ------------------------------------------------------------------------
NoTimer ==
    [startTime |-> 0, elapsedTime |-> 0, timerInterval |-> 0,
     isPaused |-> FALSE, pausedTime |-> 0]

\* live: the intervals created by setInterval and not cleared yet;
\* last: the last step taken on the timer.
NoTimerObs == [live |-> 0, last |-> "none"]

\* variant of resumedStartTime that forgets the time already counted
resumedStartTimeFresh(now, paused) == now

\* resume (line 35): this.startTime = Date.now() - this.pausedTime
resumedStartTime(now, paused) == now - paused

\* start(): lines 13-25, without the interval's callback
TimerStart ==
    /\ IF timer.timerInterval = 0
       THEN /\ timer' = [timer EXCEPT
                            !.startTime = dateNow - timer.elapsedTime,
                            !.timerInterval = 1]
            /\ timerObs' = [live |-> timerObs.live + 1, last |-> "start"]
       ELSE /\ timer' = timer
            /\ timerObs' = [timerObs EXCEPT !.last = "start"]
    /\ UNCHANGED <<acmVars, fsVars, trmVars, recVars, obsVars,
                   dateNow, review, asm>>

\* the interval's callback: lines 16-22, run while an interval is live
TimerTick ==
    /\ timerObs.live > 0
    /\ timer' = IF timer.isPaused
                THEN timer
                ELSE [timer EXCEPT !.elapsedTime = dateNow - timer.startTime]
    /\ timerObs' = [timerObs EXCEPT !.last = "tick"]
    /\ UNCHANGED <<acmVars, fsVars, trmVars, recVars, obsVars,
                   dateNow, review, asm>>

\* pause(): lines 27-30
TimerPause ==
    /\ timer' = [timer EXCEPT !.isPaused = TRUE,
                              !.pausedTime = timer.elapsedTime]
    /\ timerObs' = [timerObs EXCEPT !.last = "pause"]
    /\ UNCHANGED <<acmVars, fsVars, trmVars, recVars, obsVars,
                   dateNow, review, asm>>

\* resume(): lines 32-37
TimerResume ==
    /\ timer' = IF timer.isPaused
                THEN [timer EXCEPT
                        !.isPaused = FALSE,
                        !.startTime =
                            resumedStartTime(dateNow, timer.pausedTime)]
                ELSE timer
    /\ timerObs' = [timerObs EXCEPT !.last = "resume"]
    /\ UNCHANGED <<acmVars, fsVars, trmVars, recVars, obsVars,
                   dateNow, review, asm>>

\* reset(): lines 39-51
TimerReset ==
    /\ timer' = NoTimer
    /\ timerObs' = [live |-> IF timer.timerInterval # 0
                             THEN timerObs.live - 1
                             ELSE timerObs.live,
                    last |-> "reset"]
    /\ UNCHANGED <<acmVars, fsVars, trmVars, recVars, obsVars,
                   dateNow, review, asm>>

\* Date.now() moves on
TimePasses ==
    /\ dateNow < MaxNow
    /\ dateNow' = dateNow + 1
    /\ timerObs' = [timerObs EXCEPT !.last = "time"]
    /\ UNCHANGED <<acmVars, fsVars, trmVars, recVars, obsVars,
                   timer, review, asm>>

InitTimer ==
    /\ timer = NoTimer
    /\ dateNow = 0
    /\ timerObs = NoTimerObs

\* ------------------------------------------------------------------------
\* SpeakerReviewModal (src/Timer.ts, lines 91-512) and
\* AudioHandler.processWithAssemblyAI (part_005, lines 234-363)
\* ------------------------------------------------------------------------
\* A SpeakerReviewResult: speakerCount 0 stands for an absent count, ids
\* tells whether speakerIdentifications are present.
Verdict(accepted, speakerCount, ids) ==
    [accepted |-> accepted, speakerCount |-> speakerCount, ids |-> ids]

NoVerdict == Verdict(FALSE, 0, FALSE)

\* onClose (line 510): this.onSubmit({ accepted: true })
ImplicitAccept == Verdict(TRUE, 0, FALSE)

\* view: what the review modal shows ("none" before it is opened);
\* prompt: the stacked 'Enter Speaker Count' modal is open;
\* settled, result: the promise of lines 308-316;
\* calls: every onSubmit call, in order.
NoReview ==
    [view |-> "none", prompt |-> FALSE, settled |-> FALSE,
     result |-> NoVerdict, calls |-> <<>>]

\* variant of resolve in which a later call replaces the value
resolveLast(settled, current, value) == value

\* the resolve function of a Promise: only the first call settles it
resolve(settled, current, value) == IF settled THEN current ELSE value

\* this.onSubmit(value), onSubmit being the resolve of lines 308-316
onSubmit(r, value) ==
    [r EXCEPT !.calls = Append(@, value),
              !.result = resolve(r.settled, r.result, value),
              !.settled = TRUE]

\* this.close(): Modal.close runs onClose (lines 506-511)
closeReview(r) == [onSubmit(r, ImplicitAccept) EXCEPT !.view = "closed"]

\* One entry of the record of what processWithAssemblyAI did.
Event(ev, id, n) == [ev |-> ev, id |-> id, n |-> n]

\* pc: position of processWithAssemblyAI; id: currentTranscriptId;
\* attempts: transcribe requests sent; verdict: reviewResult;
\* log: the requests, answers and decisions so far.
NoAssembly ==
    [pc |-> "idle", previousAttempts |-> <<>>, id |-> 0, attempts |-> 0,
     accepted |-> FALSE, verdict |-> NoVerdict, deleted |-> "", log |-> <<>>]

\* variant of speakersExpected that keeps the first count entered
speakersExpectedFirst(previousAttempts) ==
    IF Len(previousAttempts) > 0 THEN previousAttempts[1] ELSE 0

\* lines 287-290: params.speakers_expected, 0 when it is not included
speakersExpected(previousAttempts) ==
    IF Len(previousAttempts) > 0
    THEN previousAttempts[Len(previousAttempts)]
    ELSE 0

\* top of the while loop to the await of line 294
sendTranscribe(a) ==
    [a EXCEPT !.pc = "transcribing",
              !.attempts = @ + 1,
              !.log = Append(@, Event("sent", 0,
                                      speakersExpected(a.previousAttempts)))]

\* processWithAssemblyAI(audioData, initialSpeakerCount): lines 234-294
ProcessWithAssemblyAI(initialSpeakerCount) ==
    /\ asm.pc = "idle"
    /\ asm' = sendTranscribe(
                 [asm EXCEPT !.previousAttempts =
                                IF initialSpeakerCount # 0
                                THEN <<initialSpeakerCount>>
                                ELSE <<>>])
    /\ UNCHANGED <<acmVars, fsVars, trmVars, recVars, obsVars,
                   timer, dateNow, timerObs, review>>

\* transcribe settles: lines 294-316, or the catch of lines 359-363
TranscribeEnds(ok) ==
    /\ asm.pc = "transcribing"
    /\ IF ok
       THEN /\ asm' = [asm EXCEPT
                          !.pc = "reviewing",
                          !.id = asm.attempts,
                          !.log = Append(@, Event("returned",
                                                  asm.attempts, 0))]
            /\ review' = [NoReview EXCEPT !.view = "review"]
       ELSE /\ asm' = [asm EXCEPT
                          !.pc = "failed",
                          !.log = Append(@, Event("raised", 0, 0))]
            /\ review' = review
    /\ UNCHANGED <<acmVars, fsVars, trmVars, recVars, obsVars,
                   timer, dateNow, timerObs>>

\* 'Accept Speaker Detection': lines 219-225
ClickAccept ==
    /\ review.view = "review" /\ ~review.prompt
    /\ review' = [review EXCEPT !.view = "identify"]
    /\ UNCHANGED <<acmVars, fsVars, trmVars, recVars, obsVars,
                   timer, dateNow, timerObs, asm>>

\* 'Incorrect Number of Speakers': lines 228-233, 433-489
ClickIncorrect ==
    /\ review.view = "review" /\ ~review.prompt
    /\ review' = [review EXCEPT !.prompt = TRUE]
    /\ UNCHANGED <<acmVars, fsVars, trmVars, recVars, obsVars,
                   timer, dateNow, timerObs, asm>>

\* 'Cancel' of the count prompt (lines 467-471), or the prompt dismissed
PromptCancel ==
    /\ review.prompt
    /\ review' = [review EXCEPT !.prompt = FALSE]
    /\ UNCHANGED <<acmVars, fsVars, trmVars, recVars, obsVars,
                   timer, dateNow, timerObs, asm>>

\* 'Submit' of the count prompt: lines 472-487; speakerCount 0 stands for
\* an empty or unparsable entry
PromptSubmit(speakerCount) ==
    /\ review.prompt
    /\ review' =
           IF speakerCount < 1
           THEN review
           ELSE closeReview(
                    [onSubmit(review, Verdict(FALSE, speakerCount, FALSE))
                        EXCEPT !.prompt = FALSE])
    /\ UNCHANGED <<acmVars, fsVars, trmVars, recVars, obsVars,
                   timer, dateNow, timerObs, asm>>

\* 'Submit Identifications': lines 357-407; confirm is FALSE when speakers
\* are unidentified and the confirmation is answered with 'Cancel'
SubmitIdentifications(confirm) ==
    /\ review.view = "identify" /\ ~review.prompt
    /\ review' = IF confirm
                 THEN closeReview(onSubmit(review, Verdict(TRUE, 0, TRUE)))
                 ELSE review
    /\ UNCHANGED <<acmVars, fsVars, trmVars, recVars, obsVars,
                   timer, dateNow, timerObs, asm>>

\* Escape or a click outside the review modal, it being the topmost modal
CloseReview ==
    /\ review.view \in {"review", "identify"} /\ ~review.prompt
    /\ review' = closeReview(review)
    /\ UNCHANGED <<acmVars, fsVars, trmVars, recVars, obsVars,
                   timer, dateNow, timerObs, asm>>

\* the await of lines 308-316 resumes: lines 318-346 up to the call of
\* deleteTranscript
ReviewResolved ==
    /\ asm.pc = "reviewing" /\ review.settled
    /\ LET reviewResult == review.result
           decided ==
               IF reviewResult.accepted
               THEN [asm EXCEPT !.accepted = TRUE,
                                !.log = Append(@, Event("accepted",
                                                        asm.id, 0))]
               ELSE IF reviewResult.speakerCount # 0
               THEN [asm EXCEPT
                        !.previousAttempts =
                            Append(@, reviewResult.speakerCount),
                        !.log = Append(@, Event("rejected", asm.id,
                                                reviewResult.speakerCount))]
               ELSE [asm EXCEPT !.accepted = TRUE,
                                !.log = Append(@, Event("accepted",
                                                        asm.id, 0))]
       IN asm' = [decided EXCEPT
                     !.pc = "deleting",
                     !.verdict = reviewResult,
                     !.log = Append(@, Event("delete", asm.id, 0))]
    /\ UNCHANGED <<acmVars, fsVars, trmVars, recVars, obsVars,
                   timer, dateNow, timerObs, review>>

\* deleteTranscript (lines 179-229) returns, its errors caught inside it;
\* then the loop test and either lines 254-294 again or lines 349-356
DeleteTranscriptEnds(outcome) ==
    /\ asm.pc = "deleting"
    /\ IF asm.accepted THEN TRUE ELSE asm.attempts < MaxAttempts
    /\ asm' = IF asm.accepted
              THEN [asm EXCEPT !.pc = "processing",
                               !.deleted = outcome,
                               !.log = Append(@, Event("process",
                                                       asm.id, 0))]
              ELSE sendTranscribe([asm EXCEPT !.deleted = outcome])
    /\ UNCHANGED <<acmVars, fsVars, trmVars, recVars, obsVars,
                   timer, dateNow, timerObs, review>>

\* processTranscriptionResult settles: line 356, or the catch of 359-363
ProcessEnds(ok) ==
    /\ asm.pc = "processing"
    /\ asm' = [asm EXCEPT !.pc = IF ok THEN "done" ELSE "failed"]
    /\ UNCHANGED <<acmVars, fsVars, trmVars, recVars, obsVars,
                   timer, dateNow, timerObs, review>>

InitReview ==
    /\ review = NoReview
    /\ asm = NoAssembly

InitUI ==
    /\ InitTimer
    /\ InitReview

\* ------------------------------------------------------------------------
\* Specification of the manager under arbitrary callers
\* ------------------------------------------------------------------------
InitContexts ==
    /\ context = 0
    /\ ctxState = <<>>
    /\ refCount = 0
    /\ caller = [c \in Callers |-> Idle]
    /\ acmOps = 0
    /\ closedBy = <<>>
    /\ forceUsed = FALSE
    /\ forceLog = NoForce
    /\ strayUsed = FALSE
    /\ scopeLog = [c \in Callers |-> NoScope]
    /\ pattern = NoPattern

InitACM ==
    /\ InitContexts
    /\ InitUI
    /\ InitTRM

NextACM ==
    \/ \E c \in Callers : GetContext(c)
    \/ \E c \in Callers : ReleaseContext(c)
    \/ \E c \in Callers : ReleaseResume(c)
    \/ \E c \in Callers : ForceClose(c)
    \/ \E c \in Callers : ForceResume(c)
    \/ \E c \in Callers : WithContext(c)
    \/ \E c \in Callers : CallbackEnds(c)
    \/ \E c \in Callers : FinallyResume(c)

SpecACM == InitACM /\ [][NextACM]_vars

TypeACM ==
    /\ context \in 0..MaxContexts
    /\ refCount \in -MaxOps..MaxOps
    /\ Len(ctxState) <= MaxContexts

\* ------------------------------------------------------------------------
\* Specification of recording, crash and recovery
\* ------------------------------------------------------------------------
Init == InitACM

Next ==
    \/ \E mime \in MimeTypes, now \in 1..MaxClock, io \in StartOutcomes :
          StartSession(mime, now, io)
    \/ StartManifest
    \/ \E kind \in BlobKinds, index \in ChunkIndices :
          WriteIncrementalChunk(kind, index)
    \/ ChunkWrite
    \/ \E io \in ManifestIO : AppendManifest(io)
    \/ \E kind \in BlobKinds : WriteSnapshot(kind)
    \/ SnapshotWrite
    \/ \E io \in ManifestIO : SnapshotManifest(io)
    \/ \E outcome \in RmdirOutcomes : DeleteSession(outcome)
    \/ \E io \in {"ok", "readFails"} : RecoveryScan(io)
    \/ ClickDiscard
    \/ \E outcome \in RmdirOutcomes : DiscardEnds(outcome)
    \/ ClickRecover
    \/ \E decoded \in BOOLEAN, buffer \in DecodedBuffers :
          DecodeEnds(decoded, buffer)
    \/ TranscodeReleased
    \/ \E outcome \in RmdirOutcomes : ProcessResolves(outcome)
    \/ ProcessRejects
    \/ DismissModal
    \/ Crash

Spec == Init /\ [][Next]_vars

\* ------------------------------------------------------------------------
\* Specification of recovery runs on what earlier plugin loads left on disk
\* ------------------------------------------------------------------------

\* The chunk files that the chunk writes of log leave (lines 83-85).
RECURSIVE chunksOf(_)
chunksOf(log) ==
    IF log = <<>> THEN <<>>
    ELSE LET last == log[Len(log)]
         IN  Put(chunksOf(SubSeq(log, 1, Len(log) - 1)),
                 chunkName(last.index), last.blob)

\* The appendChunk(blob, i) calls of a recording of n fragments, i = 0..n-1.
fragments(n) == [k \in 1..n |-> [index |-> k - 1, blob |-> Captured("audio", k)]]

\* The manifest after startSession(mime) at time id and chunk writes counted
\* up to count (lines 57-65 and 91-93).
manifestOf(mime, id, count) ==
    [status |-> "ok", mimeType |-> mime, startedAt |-> id, chunkCount |-> count]

\* What a recording that was started at time id and then killed can have
\* left in its session directory, with the chunk writes that were made:
\* killed between mkdir (line 52) and the manifest write (line 62); with no
\* fragment; with three fragments and the manifest up to date, or one
\* update behind (killed between lines 85 and 93), or torn; one audio/wav
\* fragment; a whole-file recording.<ext> written by writeSnapshot, alone
\* or beside a chunk file.
Abandoned(id) ==
    { [dir |-> EmptyDir, log |-> <<>>],
      [dir |-> [manifest |-> manifestOf("audio/webm", id, 0),
                chunks |-> <<>>, legacy |-> <<>>],
       log |-> <<>>],
      [dir |-> [manifest |-> manifestOf("audio/webm", id, 3),
                chunks |-> chunksOf(fragments(3)), legacy |-> <<>>],
       log |-> fragments(3)],
      [dir |-> [manifest |-> manifestOf("audio/webm", id, 2),
                chunks |-> chunksOf(fragments(3)), legacy |-> <<>>],
       log |-> fragments(3)],
      [dir |-> [manifest |-> [manifestOf("audio/webm", id, 2)
                                 EXCEPT !.status = "corrupt"],
                chunks |-> chunksOf(fragments(3)), legacy |-> <<>>],
       log |-> fragments(3)],
      [dir |-> [manifest |-> manifestOf("audio/wav", id, 1),
                chunks |-> chunksOf(fragments(1)), legacy |-> <<>>],
       log |-> fragments(1)],
      [dir |-> [manifest |-> manifestOf("audio/webm", id, 1),
                chunks |-> <<>>,
                legacy |-> Put(<<>>, "webm", Captured("audio", 4))],
       log |-> <<>>],
      [dir |-> [manifest |-> manifestOf("audio/webm", id, 1),
                chunks |-> chunksOf(fragments(1)),
                legacy |-> Put(<<>>, "webm", Captured("audio", 4))],
       log |-> fragments(1)] }

\* A plugin load (onload, lines 23-49) on a vault in which earlier loads
\* left any of these session directories, or none.
InitRecovery ==
    /\ InitContexts
    /\ InitUI
    /\ InitManager
    /\ \E ids \in SUBSET (1..MaxSessions) :
          \E left \in [ids -> UNION { Abandoned(id) : id \in 1..MaxSessions }] :
              /\ \A id \in ids : left[id] \in Abandoned(id)
              /\ disk = [id \in ids |-> left[id].dir]
              /\ written = [id \in ids |-> left[id].log]
              /\ tmpRoot \in (IF ids = {} THEN BOOLEAN ELSE {TRUE})
              /\ clock = MaxSessions

NextRecovery ==
    \/ \E io \in {"ok", "readFails"} : RecoveryScan(io)
    \/ ClickDiscard
    \/ \E outcome \in RmdirOutcomes : DiscardEnds(outcome)
    \/ ClickRecover
    \/ \E decoded \in BOOLEAN, buffer \in DecodedBuffers :
          DecodeEnds(decoded, buffer)
    \/ TranscodeReleased
    \/ \E outcome \in RmdirOutcomes : ProcessResolves(outcome)
    \/ ProcessRejects
    \/ ClickDiscardAgain
    \/ \E outcome \in RmdirOutcomes : DiscardEndsAgain(outcome)
    \/ ClickRecoverAgain
    \/ \E decoded \in BOOLEAN, buffer \in DecodedBuffers :
          DecodeEndsAgain(decoded, buffer)
    \/ TranscodeReleasedAgain
    \/ \E outcome \in RmdirOutcomes : ProcessResolvesAgain(outcome)
    \/ ProcessRejectsAgain
    \/ DismissModal
    \/ Crash

SpecRecovery == InitRecovery /\ [][NextRecovery]_vars

\* What a running handler awaits settles: the adapter's file operations,
\* decodeAudioData, AudioContext.close() and the promise returned by
\* process each resolve or reject, and the handler then continues.
HandlerStep ==
    \/ \E outcome \in RmdirOutcomes : DiscardEnds(outcome)
    \/ \E decoded \in BOOLEAN, buffer \in DecodedBuffers :
          DecodeEnds(decoded, buffer)
    \/ TranscodeReleased
    \/ \E outcome \in RmdirOutcomes : ProcessResolves(outcome)
    \/ ProcessRejects

HandlerStepAgain ==
    \/ \E outcome \in RmdirOutcomes : DiscardEndsAgain(outcome)
    \/ \E decoded \in BOOLEAN, buffer \in DecodedBuffers :
          DecodeEndsAgain(decoded, buffer)
    \/ TranscodeReleasedAgain
    \/ \E outcome \in RmdirOutcomes : ProcessResolvesAgain(outcome)
    \/ ProcessRejectsAgain

SpecRecoveryLive ==
    SpecRecovery /\ WF_vars(HandlerStep) /\ WF_vars(HandlerStepAgain)

\* ------------------------------------------------------------------------
\* Specification of the recorder's calls after the load's recovery run
\* ------------------------------------------------------------------------

\* The manager when the recorder makes its next calls: promptAndRecoverIfAny
\* has returned; either nothing has been recorded since the load, or an
\* earlier startSession(mime) at time 1 completed, up to one chunk was
\* appended, and deleteSession() has not been called.
InitStart ==
    /\ InitContexts
    /\ InitUI
    /\ rec = [NoRecovery EXCEPT !.pc = "returned"]
    /\ again = NoClick
    /\ modal = "none"
    /\ call = NoCall
    /\ lastResult = NoResult
    /\ processed = <<>>
    /\ starts = 0
    /\ appends = 0
    /\ crashes = 0
    /\ clock = 1
    /\ chunkIndex = 0
    /\ \/ /\ tmpRoot \in BOOLEAN
          /\ disk = <<>>
          /\ written = <<>>
          /\ sessionPath = 0
          /\ mimeType = ""
          /\ sessionFilePath = NoFile
       \/ \E mime \in MimeTypes, n \in 0..1 :
             /\ tmpRoot = TRUE
             /\ disk = [id \in {1} |->
                          [manifest |-> manifestOf(mime, 1, n),
                           chunks |-> chunksOf(fragments(n)),
                           legacy |-> <<>>]]
             /\ written = [id \in {1} |-> fragments(n)]
             /\ sessionPath = 1
             /\ mimeType = mime
             /\ sessionFilePath = [session |-> 1,
                                   ext |-> getExtensionFromMime(mime)]

NextStart ==
    \/ \E mime \in MimeTypes, now \in 1..(MaxClock + 1), io \in StartOutcomes :
          StartSession(mime, now, io)
    \/ StartManifest
    \/ \E kind \in BlobKinds, index \in ChunkIndices :
          WriteIncrementalChunk(kind, index)
    \/ ChunkWrite
    \/ \E io \in ManifestIO : AppendManifest(io)
    \/ \E kind \in BlobKinds : WriteSnapshot(kind)
    \/ SnapshotWrite
    \/ \E io \in ManifestIO : SnapshotManifest(io)
    \/ \E outcome \in RmdirOutcomes : DeleteSession(outcome)

SpecStart == InitStart /\ [][NextStart]_vars

\* ------------------------------------------------------------------------
\* Specification of a plugin load: the recovery run and the commands
\* ------------------------------------------------------------------------

\* onload registers the commands (addCommands, line 43 of main.ts) and then
\* awaits promptAndRecoverIfAny (lines 46-48): from then on the "Start/stop
\* recording" command, its hotkey and the recording controls run whenever
\* the user triggers them, and starting a recording starts a session.
NextLoad ==
    \/ \E io \in {"ok", "readFails"} : RecoveryScan(io)
    \/ ClickDiscard
    \/ \E outcome \in RmdirOutcomes : DiscardEnds(outcome)
    \/ ClickRecover
    \/ \E decoded \in BOOLEAN, buffer \in DecodedBuffers :
          DecodeEnds(decoded, buffer)
    \/ TranscodeReleased
    \/ \E outcome \in RmdirOutcomes : ProcessResolves(outcome)
    \/ ProcessRejects
    \/ DismissModal
    \/ \E mime \in MimeTypes, now \in MaxSessions..(MaxSessions + 1),
          io \in StartOutcomes : StartSession(mime, now, io)
    \/ StartManifest

SpecLoad == InitRecovery /\ [][NextLoad]_vars

\* ------------------------------------------------------------------------
\* Specification of encodeWAV on arbitrary buffers
\* ------------------------------------------------------------------------

\* One audio/webm session of one chunk was left on disk; the recovery run
\* reaches line 225, where encodeWAV is applied, with any of AudioBuffers.
InitWAV ==
    /\ InitContexts
    /\ InitUI
    /\ InitManager
    /\ clock = 1
    /\ tmpRoot = TRUE
    /\ disk = [id \in {1} |->
                 [manifest |-> manifestOf("audio/webm", 1, 1),
                  chunks |-> chunksOf(fragments(1)),
                  legacy |-> <<>>]]
    /\ written = [id \in {1} |-> fragments(1)]

NextWAV ==
    \/ \E io \in {"ok", "readFails"} : RecoveryScan(io)
    \/ ClickRecover
    \/ \E decoded \in BOOLEAN, buffer \in AudioBuffers :
          DecodeEnds(decoded, buffer)
    \/ TranscodeReleased
    \/ \E outcome \in RmdirOutcomes : ProcessResolves(outcome)
    \/ ProcessRejects

SpecWAV == InitWAV /\ [][NextWAV]_vars

\* The unsigned integer held little-endian in the bytes at offsets
\* at .. at + width - 1 (offsets count from 0, as DataView's do).
RECURSIVE readLE(_, _, _)
readLE(bytes, at, width) ==
    IF width = 0 THEN 0
    ELSE bytes[at + 1] + 256 * readLE(bytes, at + 1, width - 1)

\* The signed 16-bit integer held little-endian at offset at.
readInt16(bytes, at) ==
    LET u == readLE(bytes, at, 2) IN IF u >= 32768 THEN u - 65536 ELSE u

\* encodeWAV returned bytes for a buffer of at least one channel.
Encoded == rec.transcode = "ok" /\ rec.buffer.numberOfChannels >= 1

\* The size and the header fields of the bytes returned for rec.buffer.
HeaderLaidOut ==
    LET c   == rec.buffer.numberOfChannels
        n   == rec.buffer.length
        r   == rec.buffer.sampleRate
        out == rec.blob.bytes
    IN  /\ Len(out) = 44 + 2 * n * c
        /\ readLE(out, 4, 4) = 36 + 2 * n * c
        /\ readLE(out, 16, 4) = 16
        /\ readLE(out, 20, 2) = 1
        /\ readLE(out, 22, 2) = c
        /\ readLE(out, 24, 4) = r
        /\ readLE(out, 28, 4) = 2 * r * c
        /\ readLE(out, 32, 2) = 2 * c
        /\ readLE(out, 34, 2) = 16
        /\ readLE(out, 40, 4) = 2 * n * c

\* The buffer of the example: 1 channel, samples [1.0, -1.0], rate 16000.
IsExample ==
    /\ rec.buffer.numberOfChannels = 1
    /\ rec.buffer.sampleRate = 16000
    /\ rec.buffer.length = 2
    /\ rec.buffer.channelData = << <<SampleUnit, -SampleUnit>> >>

\* C28 (as stated): for every buffer with c >= 1 channels, n frames and
\* sample rate r, encodeWAV returns exactly 44 + 2*n*c bytes with header
\* fields chunkSize 36 + 2*n*c, fmt size 16, format tag 1, channels c,
\* sampleRate r, byteRate 2*r*c, blockAlign 2*c, bitsPerSample 16 and data
\* size 2*n*c, all little-endian; for 1 channel, samples [1.0, -1.0] and
\* rate 16000 the result is 46 bytes.
C28_WavLayoutExample46 ==
    Encoded => /\ HeaderLaidOut
               /\ IsExample => Len(rec.blob.bytes) = 46

\* C28 (amended): the same size and header fields; for 1 channel, samples
\* [1.0, -1.0] and rate 16000 the result is 48 bytes (44 of header and 4 of
\* samples), with chunkSize 40 and data size 4.
C28_WavLayoutExample48 ==
    Encoded => /\ HeaderLaidOut
               /\ IsExample => /\ Len(rec.blob.bytes) = 48
                                /\ readLE(rec.blob.bytes, 4, 4) = 40
                                /\ readLE(rec.blob.bytes, 40, 4) = 4

\* encodeWAV has returned the bytes of the example's buffer.
C28_Witness == Encoded /\ IsExample /\ rec.pc = "returned"

\* The 16-bit value claimed for a sample: clamped to [-1, 1], scaled by 32768
\* when negative and by 32767 otherwise, truncated toward zero.
Quantised(sample) ==
    LET clamped == IF sample < -SampleUnit THEN -SampleUnit
                   ELSE IF sample > SampleUnit THEN SampleUnit ELSE sample
    IN  IF clamped < 0 THEN -((-clamped * 32768) \div SampleUnit)
        ELSE (clamped * 32767) \div SampleUnit

\* The value read back from the returned bytes for frame i, channel ch.
StoredAt(i, ch) ==
    readInt16(rec.blob.bytes, 44 + 2 * (i * rec.buffer.numberOfChannels + ch))

\* C29: encodeWAV writes the sample of frame i and channel ch at byte offset
\* 44 + 2*(i*c + ch) as a little-endian signed 16-bit value equal to the
\* sample clamped to [-1, 1], scaled by 32768 when negative or by 32767
\* otherwise and truncated; 1.0 gives 32767, -1.0 gives -32768, and a sample
\* outside [-1, 1] gives the value of the nearest bound.
C29_SamplesInterleavedClampedScaled ==
    Encoded =>
        \A i \in 0..(rec.buffer.length - 1),
           ch \in 0..(rec.buffer.numberOfChannels - 1) :
            LET sample == rec.buffer.channelData[ch + 1][i + 1]
            IN  /\ StoredAt(i, ch) = Quantised(sample)
                /\ sample = SampleUnit => StoredAt(i, ch) = 32767
                /\ sample = -SampleUnit => StoredAt(i, ch) = -32768
                /\ sample > SampleUnit => StoredAt(i, ch) = 32767
                /\ sample < -SampleUnit => StoredAt(i, ch) = -32768

\* encodeWAV has returned the bytes of a two-channel, two-frame buffer with
\* a sample above 1, a sample below -1, -1.0 itself and a fraction.
C29_Witness ==
    /\ Encoded
    /\ rec.buffer.numberOfChannels = 2
    /\ rec.buffer.length = 2
    /\ rec.buffer.channelData = << <<SampleUnit + 1, 1>>,
                                   <<-SampleUnit, -SampleUnit - 1>> >>
    /\ StoredAt(1, 0) = 32767 \div SampleUnit
    /\ StoredAt(0, 1) = -32768

\* C30: encodeWAV rejects a malformed buffer: applied to a buffer of zero
\* channels it fails instead of returning bytes, so bytes are only ever
\* returned for a buffer of at least one channel.
C30_ZeroChannelsRejected ==
    rec.transcode = "ok" => rec.buffer.numberOfChannels >= 1

\* C31: in a recovery run the artifact is reconstructed (the fragments are
\* listed and read) before the decision prompt is shown: whenever the prompt
\* is waiting for a decision the session's files have been read, and a
\* session with no recoverable data never reaches the prompt.
C31_ReconstructedBeforePrompt ==
    (rec.pc = "prompt" /\ rec.session \in DOMAIN disk) =>
        /\ rec.reads > 0
        /\ ~EmptySession(disk[rec.session])

\* ------------------------------------------------------------------------
\* Specification of the two scans of the tmp root
\* ------------------------------------------------------------------------

\* On what earlier loads left under tmp, with or without other folders
\* beside the session folders, hasActiveSession is called and the recovery
\* run looks up the latest session.
NextScan ==
    \/ \E others \in SUBSET OtherFolders : HasActiveSession(others)
    \/ \E io \in {"ok", "readFails"} : RecoveryScan(io)

SpecScan == InitRecovery /\ [][NextScan]_vars

C33_NeverHandsOutClosingContext ==
    \A c \in Callers :
        (/\ caller[c].whileClosing
         /\ caller[c].held # 0
         /\ ctxState[caller[c].held] # "closing") =>
            /\ ctxState[caller[c].held] # "closed"
            /\ context = caller[c].held
            /\ refCount >= 1

\* An appendChunk call is suspended at one of its awaits, and deleteSession()
\* has run to its end since the call was made.
DeletedInFlight ==
    /\ lastResult.op = "delete"
    /\ lastResult.outcome = "ok"
    /\ call.pc # "idle"

\* C34: once deleteSession() for the active session has completed, no later
\* write creates or modifies a file under that session's directory, even if
\* an appendChunk call for that session was in flight when the deletion
\* started: the steps such a call takes afterwards leave the directory as
\* it is, and do not create it again.
C34_NoWriteAfterDelete ==
    [][(DeletedInFlight /\ call' # call) =>
          IF call.session \in DOMAIN disk
          THEN /\ call.session \in DOMAIN disk'
               /\ disk'[call.session] = disk[call.session]
          ELSE call.session \notin DOMAIN disk']_vars

\* ------------------------------------------------------------------------
\* Specification of the two forms of deleteSession
\* ------------------------------------------------------------------------

\* A plugin load on a disk with one abandoned session, or none.
InitDelete ==
    /\ InitContexts
    /\ InitUI
    /\ InitManager
    /\ clock = MaxSessions
    /\ \/ /\ tmpRoot \in BOOLEAN
          /\ disk = <<>>
          /\ written = <<>>
       \/ \E left \in Abandoned(1) :
             /\ tmpRoot = TRUE
             /\ disk = [id \in {1} |-> left.dir]
             /\ written = [id \in {1} |-> left.log]

\* The recovery run, whose handlers call deleteSession(sessionPath), beside
\* the recorder's startSession, appendChunk and deleteSession() calls.
NextDelete ==
    \/ \E io \in {"ok", "readFails"} : RecoveryScan(io)
    \/ ClickDiscard
    \/ \E outcome \in RmdirOutcomes : DiscardEnds(outcome)
    \/ ClickRecover
    \/ \E decoded \in BOOLEAN, buffer \in DecodedBuffers :
          DecodeEnds(decoded, buffer)
    \/ TranscodeReleased
    \/ \E outcome \in RmdirOutcomes : ProcessResolves(outcome)
    \/ ProcessRejects
    \/ \E mime \in MimeTypes, now \in MaxSessions..(MaxSessions + 1),
          io \in StartOutcomes : StartSession(mime, now, io)
    \/ StartManifest
    \/ \E kind \in BlobKinds : WriteIncrementalChunk(kind, 0)
    \/ ChunkWrite
    \/ AppendManifest("ok")
    \/ \E outcome \in RmdirOutcomes : DeleteSession(outcome)

SpecDelete == InitDelete /\ [][NextDelete]_vars

\* A recovery handler's deleteSession(sessionPath) ends in this step.
ExplicitDeleteEnds == rec'.deletion # rec.deletion

\* The manager's active-session state.
SessionState == <<sessionPath, chunkIndex, mimeType, sessionFilePath>>

\* deleteSession(path) leaves the manager's active-session state as it is.
ExplicitDeleteKeepsState ==
    [][ExplicitDeleteEnds => SessionState' = SessionState]_vars

\* After a deleteSession() call, and for as long as no other call has
\* ended, appendChunk does nothing.
AppendAfterDeleteIsNoOp ==
    [][(lastResult.op = "delete" /\ appends' = appends + 1) =>
          /\ call' = call
          /\ disk' = disk
          /\ SessionState' = SessionState
          /\ lastResult'.outcome = "ok"]_vars

\* C35 (as stated): deleteSession(path) with an explicit path leaves the
\* manager's active-session state (sessionPath, chunkIndex, mimeType,
\* sessionFilePath) unchanged, while deleteSession() with no argument clears
\* all of it, after which every appendChunk is a no-op until the next
\* startSession.
C35_DeleteSessionFrame ==
    /\ ExplicitDeleteKeepsState
    /\ [](lastResult.op = "delete" =>
             SessionState = <<0, 0, "", NoFile>>)
    /\ AppendAfterDeleteIsNoOp

\* C35 (amended): the same, where deleteSession() with no argument clears
\* the state when a session is active; when none is active it returns at
\* once and changes nothing (sessionPath is empty, the mimeType assigned by
\* a startSession that failed before it had a session stays).  In both
\* cases appendChunk is a no-op afterwards.
C35_DeleteSessionFrameWhenActive ==
    /\ ExplicitDeleteKeepsState
    /\ [](lastResult.op = "delete" =>
             IF lastResult.outcome = "ok"
             THEN SessionState = <<0, 0, "", NoFile>>
             ELSE sessionPath = 0)
    /\ [][(lastResult'.op = "delete" /\ lastResult'.outcome = "nothing") =>
             SessionState' = SessionState]_vars
    /\ AppendAfterDeleteIsNoOp

\* A recovery handler has removed the abandoned session with
\* deleteSession(path) while a session started since was active, and that
\* session is still active.
C35_Witness ==
    /\ rec.deletion = "removed"
    /\ rec.pc = "returned"
    /\ rec.kept # 0
    /\ rec.kept # rec.session
    /\ sessionPath = rec.kept
    /\ sessionFilePath # NoFile
    /\ mimeType # ""

\* C36: the file name that recovery passes to process matches the artifact
\* passed with it: its extension is the one derived from the MIME type of
\* the delivered blob, in every recovery path.
C36_FileNameMatchesArtifact ==
    \A k \in 1..Len(processed) :
        processed[k].ext = getExtensionFromMime(processed[k].type)

\* ------------------------------------------------------------------------
\* Specification of the Timer under arbitrary calls
\* ------------------------------------------------------------------------
NextTimer ==
    \/ TimerStart
    \/ TimerTick
    \/ TimerPause
    \/ TimerResume
    \/ TimerReset
    \/ TimePasses

SpecTimer == Init /\ [][NextTimer]_vars

\* C39: for every sequence of Timer start, pause, resume and interval
\* ticks between two resets, the elapsed time never decreases and does not
\* advance while the timer is paused; reset stops the interval and returns
\* the timer to its initial state (elapsed 0, not paused), and a second
\* start without reset does not create a second interval.
C39_TimerElapsedAndInterval ==
    /\ [][timerObs'.last # "reset" =>
              timer'.elapsedTime >= timer.elapsedTime]_vars
    /\ [][(timer.isPaused /\ timerObs'.last # "reset") =>
              timer'.elapsedTime = timer.elapsedTime]_vars
    /\ [][timerObs'.last = "reset" =>
              (timer' = NoTimer /\ timerObs'.live = 0)]_vars
    /\ [][(timerObs'.last = "start" /\ timer.timerInterval # 0) =>
              timerObs'.live = timerObs.live]_vars
    /\ [](timerObs.live <= 1)

\* The timer ran, was paused while time passed, was resumed and ticked
\* again: the elapsed time is past the paused time and short of the clock.
C39_Witness ==
    /\ timerObs.last = "tick"
    /\ ~timer.isPaused
    /\ timer.pausedTime > 0
    /\ timer.elapsedTime > timer.pausedTime
    /\ timer.elapsedTime < dateNow


\* ------------------------------------------------------------------------
\* Specification of processWithAssemblyAI and its review modal
\* ------------------------------------------------------------------------
NextReview ==
    \/ \E initialSpeakerCount \in 0..MaxSpeakers :
           ProcessWithAssemblyAI(initialSpeakerCount)
    \/ \E ok \in BOOLEAN : TranscribeEnds(ok)
    \/ ClickAccept
    \/ ClickIncorrect
    \/ PromptCancel
    \/ \E speakerCount \in 0..MaxSpeakers : PromptSubmit(speakerCount)
    \/ \E confirm \in BOOLEAN : SubmitIdentifications(confirm)
    \/ CloseReview
    \/ ReviewResolved
    \/ \E outcome \in {"ok", "failed"} : DeleteTranscriptEnds(outcome)
    \/ \E ok \in BOOLEAN : ProcessEnds(ok)

SpecReview == Init /\ [][NextReview]_vars

\* the branch of lines 322-346 has been taken for the modal last opened
ActedOnReview == asm.pc = "deleting"

\* C37: the speaker-review result that processWithAssemblyAI acts on is the
\* first onSubmit call of the modal: the explicit acceptance or the explicit
\* speaker-count rejection when the user gave one, and {accepted: true} when
\* the modal is closed with no explicit decision; the onSubmit fired again
\* by onClose never overrides an explicit rejection.
C37_FirstOnSubmitWins ==
    ActedOnReview =>
        /\ Len(review.calls) > 0
        /\ asm.verdict = review.calls[1]
        /\ \A k \in 1..Len(review.calls) :
               /\ ~review.calls[k].accepted => asm.verdict = review.calls[k]
               /\ review.calls[k].ids => asm.verdict = review.calls[k]
        /\ (\A k \in 1..Len(review.calls) : review.calls[k] = ImplicitAccept)
               => asm.verdict = ImplicitAccept

\* An explicit rejection was followed by the onSubmit of onClose, and the
\* rejection is what processWithAssemblyAI acted on.
C37_Witness ==
    /\ ActedOnReview
    /\ Len(review.calls) = 2
    /\ ~review.calls[1].accepted
    /\ review.calls[2] = ImplicitAccept
    /\ asm.verdict = review.calls[1]
    /\ ~asm.accepted

Log == asm.log

\* deleteTranscript was requested for the returned transcript of entry i at
\* most once, and once before any later request or processing
DeletedOnceBeforeNext(i) ==
    LET dels == {d \in 1..Len(Log) :
                    Log[d].ev = "delete" /\ Log[d].id = Log[i].id}
    IN /\ Cardinality(dels) <= 1
       /\ \A j \in (i + 1)..Len(Log) :
              Log[j].ev \in {"sent", "process"} =>
                  \E d \in dels : i < d /\ d < j

EveryTranscriptDeletedOnce ==
    \A i \in 1..Len(Log) : Log[i].ev = "returned" => DeletedOnceBeforeNext(i)

\* a request sent after a rejection carries the count entered last
RetrySendsLastCount ==
    \A j \in 1..Len(Log) :
        Log[j].ev = "sent" =>
            \A i \in 1..(j - 1) :
                (/\ Log[i].ev = "rejected"
                 /\ \A k \in (i + 1)..(j - 1) : Log[k].ev # "rejected")
                    => Log[j].n = Log[i].n

\* the while loop of lines 253-347 has been left
LoopEnded == asm.pc \in {"processing", "done", "failed"}

TranscribeRaised == Len(Log) > 0 /\ Log[Len(Log)].ev = "raised"

\* C38 as stated: in processWithAssemblyAI every transcription attempt that
\* returned a transcript has deleteTranscript requested for that
\* transcript's id exactly once, before the next attempt is started or the
\* accepted result is processed; the retry loop ends only on an accepted
\* (explicit or implicit) review, and each retry sends speakers_expected
\* equal to the most recently entered speaker count.
C38_DeleteOnceLoopEndsOnAccept ==
    /\ EveryTranscriptDeletedOnce
    /\ LoopEnded => asm.accepted
    /\ RetrySendsLastCount

\* C38, amended: as above, but the loop also ends, with nothing processed,
\* when a transcription request raises.
C38_DeleteOnceLoopEndsOnAcceptOrRaise ==
    /\ EveryTranscriptDeletedOnce
    /\ LoopEnded => (asm.accepted \/ TranscribeRaised)
    /\ TranscribeRaised =>
           (asm.pc = "failed" /\ \A i \in 1..Len(Log) : Log[i].ev # "process")
    /\ RetrySendsLastCount

\* Two attempts: the first rejected with a count other than the initial
\* one, the second accepted, both transcripts deleted, the second processed.
C38_Witness ==
    /\ asm.pc = "processing"
    /\ asm.attempts = 2
    /\ Len(asm.previousAttempts) = 2
    /\ asm.previousAttempts[1] # asm.previousAttempts[2]
    /\ \E i, j \in 1..Len(Log) :
           /\ Log[i].ev = "delete" /\ Log[i].id = 1
           /\ Log[j].ev = "delete" /\ Log[j].id = 2

====
